---- MODULE Spec2Model ----
(***************************************************************************)
(* A model of SpritePx's EditorStore (editor.store.ts): the frame list,    *)
(* the undo stack, the canvas size, the lasso selection, the floating      *)
(* move layer and the clipboard.                                           *)
(*                                                                         *)
(* A pixel buffer (Uint32Array) is a function from 0..n-1 to 32-bit        *)
(* naturals.  The store never writes a buffer it has published: every      *)
(* handler copies (new Uint32Array(x)), edits the copy and replaces the    *)
(* slot, so buffers are modelled as values.  A read past the end of a      *)
(* typed array yields undefined and a write past the end is dropped, as    *)
(* in JavaScript.                                                          *)
(*                                                                         *)
(* A nullable signal is a sequence: <<>> is null and <<v>> holds v.        *)
(***************************************************************************)
EXTENDS Integers, Sequences, FiniteSets, TLC

(* ------------------------------------------------------------------ *)
(* Program constants                                                   *)
(* ------------------------------------------------------------------ *)
MIN == 8
MAX == 512
maxUndo == 60
maxRecentColors == 20
InitW == 32
InitH == 32

(* ------------------------------------------------------------------ *)
(* Bounds of the exploration                                           *)
(* ------------------------------------------------------------------ *)
\* pushes are explored while the undo stack is shorter than this
MaxDepth == 2
\* frames are added while the frame list is shorter than this
MaxFrames == 2
\* lasso vertices are recorded while the path is shorter than this
MaxPath == 3
\* the same two limits where only the frame list is edited
MaxDepthF == 2
MaxFramesF == 3
\* number of strokes of the history scenario beyond maxUndo
ExtraPushes == 2
\* largest brush radius painted with
MaxRadius == 1
\* number of distinct colours painted with beyond maxRecentColors
ExtraColors == 2
MaxResizes == 2
\* depth of the history in the import scenario
MaxImports == 2
\* depth of the history in the crop scenario
MaxCrops == 2
\* most vertices of a free lasso path
MaxVertices == 4
\* depth of the history in the mixed scenario
MaxDepthM == 1
\* snapshots the pointer may push in the stroke runs
MaxStrokes == 2
\* snapshots in the runs that abandon a move
MaxDepthA == 3
\* interval ids the browser hands out, and ticks counted after a restart
MaxTimers == 3
MaxTicks == 2

Null == <<>>
Some(v) == <<v>>

Pt(px, py) == [x |-> px, y |-> py]

Max2(a, b) == IF a > b THEN a ELSE b
Min2(a, b) == IF a < b THEN a ELSE b

(* ------------------------------------------------------------------ *)
(* Pixels and buffers                                                  *)
(* ------------------------------------------------------------------ *)
\* A JavaScript number that holds a colour is <<sign, a, rgb>>: a is bits
\* 24..31 and rgb bits 0..23 of its 32-bit pattern; sign 0 is the unsigned
\* reading of the pattern (what a Uint32Array element yields), sign 1 the
\* negative int32 reading (what (a << 24) | ... yields when a >= 128).
\* Two numbers are === exactly when the triples are equal.
ARGB(a, r, g, b) == <<0, a, r * 65536 + g * 256 + b>>

\* (a << 24) | (r << 16) | (g << 8) | b, an int32
Int32ARGB(a, r, g, b) == <<IF a >= 128 THEN 1 ELSE 0, a, r * 65536 + g * 256 + b>>

\* the value of an element read past the end of a typed array
UNDEFINED == <<2, 0, 0>>

\* 0x00000000
Transparent == ARGB(0, 0, 0, 0)

\* 0xff000000, the initial draw colour
INK == ARGB(255, 0, 0, 0)

\* what a Uint32Array stores when v is assigned to an element
ToUint32(v) == IF v = UNDEFINED THEN Transparent ELSE <<0, v[2], v[3]>>

\* (v >>> 24) & 0xff; undefined >>> 24 is 0
Alpha(v) == IF v = UNDEFINED THEN 0 ELSE v[2]

\* fr[i]
Read(fr, i) == IF i \in DOMAIN fr THEN fr[i] ELSE UNDEFINED

makeFrame(cw, ch, fill) == [i \in 0 .. (cw * ch - 1) |-> ToUint32(fill)]

\* a decoded image: its size and its pixels, row-major, as ARGB values
Image(iw, ih, px) == [w |-> iw, h |-> ih, data |-> px]

InBounds(px, py, cw, ch) == ~(px < 0 \/ py < 0 \/ px >= cw \/ py >= ch)

VARIABLES
    w, h, tool, color, brushRadius,
    frames, active,
    uiAviso,
    selectionPath, selectionMask, isSelecting,
    moving, moveStart, moveDx, moveDy, floatingPixels, baseWhileMoving,
    clipboard,
    undoStack,
    recentColors,
    sourceCanvas, sourceW, sourceH, sourceZoom, sourcePanX, sourcePanY, sourceSel,
    mousePixel, drawing, strokeUndoPushed,
    fps, reproduciendo, timer, playIdx, intervals, nextTimer,
    op,
    prior

cfgVars == <<w, h, tool, color, brushRadius>>
frameVars == <<frames, active>>
selVars == <<selectionPath, selectionMask, isSelecting>>
moveVars == <<moving, moveStart, moveDx, moveDy, floatingPixels, baseWhileMoving>>
srcVars == <<sourceCanvas, sourceW, sourceH, sourceZoom, sourcePanX, sourcePanY, sourceSel>>
storeVars == <<cfgVars, frameVars, uiAviso, selVars, moveVars, clipboard, undoStack,
               recentColors, srcVars>>
\* the pointer: the store's mousePixel and the canvas component's private
\* fields drawing and strokeUndoPushed
ptrVars == <<mousePixel, drawing, strokeUndoPushed>>
\* the preview player: state().fps, the component's fields reproduciendo,
\* timer and idx (here playIdx), the intervals the browser has scheduled and
\* the next id it hands out
playerVars == <<fps, reproduciendo, timer, playIdx, intervals, nextTimer>>
\* what a store method leaves alone
uiVars == <<ptrVars, playerVars>>
vars == <<storeVars, uiVars, op, prior>>

\* the call that made the last step, with its arguments
Call(name, args) == [name |-> name, args |-> args]

Aviso(msg, nums) == Some([msg |-> msg, nums |-> nums])

activeFrame == frames[active + 1]

(* ------------------------------------------------------------------ *)
(* Initial states                                                      *)
(* ------------------------------------------------------------------ *)
\* the store as its field initialisers leave it, on a cw x ch canvas, with
\* source image src and source selection sel
Started(cw, ch, fs, a, recent, src, sel) ==
    /\ w = cw
    /\ h = ch
    /\ tool = "pencil"
    /\ color = INK
    /\ brushRadius = 0
    /\ frames = fs
    /\ active = a
    /\ uiAviso = Null
    /\ selectionPath = Null
    /\ selectionMask = Null
    /\ isSelecting = FALSE
    /\ moving = FALSE
    /\ moveStart = Null
    /\ moveDx = 0
    /\ moveDy = 0
    /\ floatingPixels = Null
    /\ baseWhileMoving = Null
    /\ clipboard = Null
    /\ undoStack = <<>>
    /\ recentColors = recent
    /\ sourceCanvas = src
    /\ sourceW = IF src = Null THEN 0 ELSE src[1].w
    /\ sourceH = IF src = Null THEN 0 ELSE src[1].h
    /\ sourceZoom = 1
    /\ sourcePanX = 0
    /\ sourcePanY = 0
    /\ sourceSel = sel
    /\ mousePixel = Pt(0, 0)
    /\ drawing = FALSE
    /\ strokeUndoPushed = FALSE
    /\ fps = 12
    /\ reproduciendo = TRUE
    /\ timer = Null
    /\ playIdx = 0
    /\ intervals = {}
    /\ nextTimer = 1
    /\ op = Call("init", <<>>)
    /\ prior = Null

\* the state after construction: one transparent 32 x 32 frame
Init == Started(InitW, InitH, <<makeFrame(InitW, InitH, Transparent)>>, 0, <<INK>>, Null, Null)

\* the same store on the smallest canvas.  The program reaches it from Init:
\* setCanvasSize(8, 8), importarImagen of a transparent 1 x 1 image (which
\* resets the notice), pushUndo until the 32 x 32 snapshot is shifted out,
\* then undo until the stack is empty.
InitMin == Started(MIN, MIN, <<makeFrame(MIN, MIN, Transparent)>>, 0, <<INK>>, Null, Null)

\* InitMin with a source image loaded and a rectangle selected on it:
\* importarFuente and setSourceSel before the steps above
InitStore == Started(MIN, MIN, <<makeFrame(MIN, MIN, Transparent)>>, 0, <<INK>>,
            Some(Image(1, 1, [i \in {0} |-> ARGB(255, 255, 0, 0)])),
                     Some([x |-> 0, y |-> 0, w |-> 1, h |-> 1]))

(* ------------------------------------------------------------------ *)
(* Undo                                                                *)
(* ------------------------------------------------------------------ *)
Snapshot(fs, a) == [frames |-> fs, active |-> a]

\* pushUndo that puts the snapshot at the wrong end (unshift for push)
PushedFront(stack, fs, a) ==
    LET s1 == <<Snapshot(fs, a)>> \o stack
    IN  IF Len(s1) > maxUndo THEN SubSeq(s1, 1, maxUndo) ELSE s1

\* pushUndo that drops the new snapshot when the stack is full
PushedKeepOldest(stack, fs, a) ==
    LET s1 == Append(stack, Snapshot(fs, a))
    IN  IF Len(s1) > maxUndo THEN stack ELSE s1

\* undoStack after pushUndo(): push a deep copy, shift when over maxUndo
Pushed(stack, fs, a) ==
    LET s1 == Append(stack, Snapshot(fs, a))
    IN  IF Len(s1) > maxUndo THEN Tail(s1) ELSE s1

\* a stopMoving that keeps the start point and both buffers
stopMovingKeepBuffers ==
    /\ moving' = FALSE
    /\ moveStart' = moveStart
    /\ moveDx' = 0
    /\ moveDy' = 0
    /\ floatingPixels' = floatingPixels
    /\ baseWhileMoving' = baseWhileMoving

\* a stopMoving that leaves the displacement as it was
stopMovingKeepOffset ==
    /\ moving' = FALSE
    /\ moveStart' = Null
    /\ moveDx' = moveDx
    /\ moveDy' = moveDy
    /\ floatingPixels' = Null
    /\ baseWhileMoving' = Null

stopMoving ==
    /\ moving' = FALSE
    /\ moveStart' = Null
    /\ moveDx' = 0
    /\ moveDy' = 0
    /\ floatingPixels' = Null
    /\ baseWhileMoving' = Null

\* clearSelection that forgets to reset the mask
clearSelectionKeepMask ==
    /\ selectionPath' = Null
    /\ selectionMask' = selectionMask
    /\ isSelecting' = FALSE
    /\ stopMoving

clearSelection ==
    /\ selectionPath' = Null
    /\ selectionMask' = Null
    /\ isSelecting' = FALSE
    /\ stopMoving

\* the live state a call starts from
Before ==
    Some([frames |-> frames, active |-> active, w |-> w, h |-> h,
          mask |-> selectionMask, moving |-> moving])

pushUndo ==
    /\ undoStack' = Pushed(undoStack, frames, active)
    /\ op' = Call("pushUndo", <<>>)
    /\ UNCHANGED uiVars
    /\ prior' = Null
    /\ UNCHANGED <<cfgVars, frameVars, uiAviso, selVars, moveVars, clipboard, recentColors, srcVars>>

\* undo that restores the frames and leaves the active index as it is
UndoActiveStale(snap) == active

\* active after undo(): Math.min(snap.active, frames.length - 1)
UndoActive(snap) == Min2(snap.active, Len(snap.frames) - 1)

undo ==
    /\ op' = Call("undo", <<>>)
    /\ UNCHANGED uiVars
    /\ prior' = IF undoStack = <<>> THEN Null ELSE IF drawing THEN prior ELSE Before
    /\ IF undoStack = <<>>
       THEN UNCHANGED storeVars
       ELSE LET snap == undoStack[Len(undoStack)]
            IN  /\ undoStack' = SubSeq(undoStack, 1, Len(undoStack) - 1)
                /\ frames' = snap.frames
                /\ active' = UndoActive(snap)
                /\ clearSelection
                /\ UNCHANGED <<cfgVars, uiAviso, clipboard, recentColors, srcVars>>

(* ------------------------------------------------------------------ *)
(* Tool, colour, brush                                                 *)
(* ------------------------------------------------------------------ *)
setTool(t) ==
    /\ op' = Call("setTool", <<t>>)
    /\ UNCHANGED uiVars
    /\ prior' = Null
    /\ tool' = t
    /\ UNCHANGED <<w, h, color, brushRadius, frameVars, uiAviso, selVars, moveVars,
                   clipboard, undoStack, recentColors, srcVars>>

setColor(col) ==
    /\ op' = Call("setColor", <<col>>)
    /\ UNCHANGED uiVars
    /\ prior' = Null
    /\ color' = col
    /\ UNCHANGED <<w, h, tool, brushRadius, frameVars, uiAviso, selVars, moveVars,
                   clipboard, undoStack, recentColors, srcVars>>

\* Math.max(0, Math.min(20, Math.floor(r))) for an integer r
ClampRadius(r) == Max2(0, Min2(20, r))

setBrushRadius(r) ==
    /\ op' = Call("setBrushRadius", <<r>>)
    /\ UNCHANGED uiVars
    /\ prior' = Null
    /\ brushRadius' = ClampRadius(r)
    /\ UNCHANGED <<w, h, tool, color, frameVars, uiAviso, selVars, moveVars,
                   clipboard, undoStack, recentColors, srcVars>>

(* ------------------------------------------------------------------ *)
(* Canvas size                                                         *)
(* ------------------------------------------------------------------ *)
\* Math.max(MIN, Math.min(MAX, Math.floor(n))) for an integer n
\* a clamp without the upper limit
ClampSizeNoMax(n) == Max2(MIN, n)

\* a clamp without the lower limit
ClampSizeNoMin(n) == Min2(MAX, n)

ClampSize(n) == Max2(MIN, Min2(MAX, n))

\* (a - b) / 2 rounded towards zero
HalfDiffTrunc(a, b) == IF a >= b THEN (a - b) \div 2 ELSE -((b - a) \div 2)

\* Math.floor((a - b) / 2)
HalfDiff(a, b) == (a - b) \div 2

\* one frame re-laid on a nw x nh canvas: the opaque pixels of the old
\* ow x oh grid, shifted by the centring offset, those that still fit
Resized(fr, ow, oh, nw, nh) ==
    LET offX == HalfDiff(nw, ow)
        offY == HalfDiff(nh, oh)
    IN  [i \in 0 .. (nw * nh - 1) |->
            LET ox == (i % nw) - offX
                oy == (i \div nw) - offY
                col == Read(fr, oy * ow + ox)
            IN  IF ox >= 0 /\ ox < ow /\ oy >= 0 /\ oy < oh /\ Alpha(col) # 0
                THEN ToUint32(col)
                ELSE Transparent]

setCanvasSize(newW, newH) ==
    LET nw == ClampSize(newW)
        nh == ClampSize(newH)
    IN  /\ op' = Call("setCanvasSize", <<newW, newH>>)
        /\ UNCHANGED uiVars
        /\ prior' = Before
        /\ IF nw = w /\ nh = h
           THEN UNCHANGED storeVars
           ELSE /\ undoStack' = Pushed(undoStack, frames, active)
                /\ frames' = [k \in 1 .. Len(frames) |-> Resized(frames[k], w, h, nw, nh)]
                /\ w' = nw
                /\ h' = nh
                /\ clearSelection
                /\ uiAviso' = Aviso("Lienzo cambiado", <<w, h, nw, nh>>)
                /\ UNCHANGED <<tool, color, brushRadius, active, clipboard, recentColors, srcVars>>

(* ------------------------------------------------------------------ *)
(* Frames                                                              *)
(* ------------------------------------------------------------------ *)
addFrame ==
    /\ op' = Call("addFrame", <<>>)
    /\ UNCHANGED uiVars
    /\ prior' = Before
    /\ undoStack' = Pushed(undoStack, frames, active)
    /\ frames' = Append(frames, makeFrame(w, h, Transparent))
    /\ active' = Len(frames')  - 1
    /\ UNCHANGED <<cfgVars, uiAviso, selVars, moveVars, clipboard, recentColors, srcVars>>

\* duplicateFrame that clones the last frame instead of the active one
duplicateFrameLast ==
    /\ op' = Call("duplicateFrame", <<>>)
    /\ UNCHANGED uiVars
    /\ prior' = Before
    /\ undoStack' = Pushed(undoStack, frames, active)
    /\ frames' = Append(frames, frames[Len(frames)])
    /\ active' = Len(frames') - 1
    /\ UNCHANGED <<cfgVars, uiAviso, selVars, moveVars, clipboard, recentColors, srcVars>>

duplicateFrame ==
    /\ op' = Call("duplicateFrame", <<>>)
    /\ UNCHANGED uiVars
    /\ prior' = Before
    /\ undoStack' = Pushed(undoStack, frames, active)
    /\ frames' = Append(frames, activeFrame)
    /\ active' = Len(frames') - 1
    /\ UNCHANGED <<cfgVars, uiAviso, selVars, moveVars, clipboard, recentColors, srcVars>>

\* The active signal is public and writable; the timeline selects a frame by
\* setting it to the index of one of the frames it lists.
setActive(i) ==
    /\ i \in 0 .. (Len(frames) - 1)
    /\ op' = Call("active.set", <<i>>)
    /\ UNCHANGED uiVars
    /\ prior' = IF op.name \in {"copySelection", "active.set"} THEN prior ELSE Null
    /\ active' = i
    /\ UNCHANGED <<cfgVars, frames, uiAviso, selVars, moveVars, clipboard, undoStack,
                   recentColors, srcVars>>

\* deleteFrame that drops the tail with the frame: f.slice(0, idx)
WithoutFrameTruncated(fs, idx) == SubSeq(fs, 1, idx)

\* f.slice(0, idx).concat(f.slice(idx + 1))
WithoutFrame(fs, idx) == SubSeq(fs, 1, idx) \o SubSeq(fs, idx + 2, Len(fs))

deleteFrame ==
    /\ op' = Call("deleteFrame", <<>>)
    /\ UNCHANGED uiVars
    /\ prior' = Before
    /\ IF Len(frames) <= 1
       THEN UNCHANGED storeVars
       ELSE /\ undoStack' = Pushed(undoStack, frames, active)
            /\ frames' = WithoutFrame(frames, active)
            /\ active' = Max2(0, active - 1)
            /\ clearSelection
            /\ UNCHANGED <<cfgVars, uiAviso, clipboard, recentColors, srcVars>>

(* ------------------------------------------------------------------ *)
(* Recent colours and the stamp                                        *)
(* ------------------------------------------------------------------ *)
\* recentColors after pushRecentColorUsado(color)
\* a registration that keeps the earlier occurrence of the colour
RecentPushedTwice(list, col) ==
    IF Alpha(col) = 0
    THEN list
    ELSE LET next == <<col>> \o list
         IN  SubSeq(next, 1, Min2(maxRecentColors, Len(next)))

\* a registration that also takes transparent colours
RecentPushedAnyAlpha(list, col) ==
    LET next == <<col>> \o SelectSeq(list, LAMBDA c : c # col)
    IN  SubSeq(next, 1, Min2(maxRecentColors, Len(next)))

RecentPushed(list, col) ==
    IF Alpha(col) = 0
    THEN list
    ELSE LET next == <<col>> \o SelectSeq(list, LAMBDA c : c # col)
         IN  SubSeq(next, 1, Min2(maxRecentColors, Len(next)))

\* fs with slot a replaced: nf = frames.slice(); nf[a] = newFrame
replaceActiveFrame(fs, a, newFrame) == [fs EXCEPT ![a + 1] = newFrame]

\* a stamp that tests the index instead of the coordinates, so that a
\* square hanging over the left edge wraps into the row above
StampedWrapped(fr, x, y, r, col, cw, ch) ==
    [i \in DOMAIN fr |->
        IF \E oy \in -r .. r, ox \in -r .. r : (y + oy) * cw + (x + ox) = i
        THEN ToUint32(col)
        ELSE fr[i]]

\* the square of side 2r+1 around (x, y), clipped to the cw x ch canvas
Stamped(fr, x, y, r, col, cw, ch) ==
    [i \in DOMAIN fr |->
        IF \E oy \in -r .. r, ox \in -r .. r :
              /\ InBounds(x + ox, y + oy, cw, ch)
              /\ (y + oy) * cw + (x + ox) = i
        THEN ToUint32(col)
        ELSE fr[i]]

stamp(x, y, col) ==
    /\ op' = Call("stamp", <<x, y, col>>)
    /\ UNCHANGED uiVars
    /\ prior' = Null
    /\ frames' = replaceActiveFrame(frames, active,
                                    Stamped(activeFrame, x, y, brushRadius, col, w, h))
    /\ recentColors' = IF tool = "pencil" THEN RecentPushed(recentColors, col)
                       ELSE recentColors
    /\ UNCHANGED <<cfgVars, active, uiAviso, selVars, moveVars, clipboard, undoStack, srcVars>>

(* ------------------------------------------------------------------ *)
(* Lasso                                                               *)
(* ------------------------------------------------------------------ *)
\* what startLasso does to the store
startLassoDo(x, y) ==
    /\ selectionPath' = Some(<<Pt(x, y)>>)
    /\ selectionMask' = Null
    /\ isSelecting' = TRUE
    /\ UNCHANGED <<cfgVars, frameVars, uiAviso, moveVars, clipboard, undoStack, recentColors, srcVars>>

startLasso(x, y) ==
    /\ op' = Call("startLasso", <<x, y>>)
    /\ UNCHANGED uiVars
    /\ prior' = Null
    /\ startLassoDo(x, y)

\* what pushLassoPoint does to the store
pushLassoPointDo(x, y) ==
    /\ selectionPath' = IF selectionPath = Null THEN Null
                        ELSE Some(Append(selectionPath[1], Pt(x, y)))
    /\ UNCHANGED <<cfgVars, frameVars, uiAviso, selectionMask, isSelecting, moveVars,
                   clipboard, undoStack, recentColors, srcVars>>

pushLassoPoint(x, y) ==
    /\ op' = Call("pushLassoPoint", <<x, y>>)
    /\ UNCHANGED uiVars
    /\ prior' = Null
    /\ pushLassoPointDo(x, y)

\* an edge test that counts an end on the ray as above it
EdgeCrossesClosed(x, y, poly, i) ==
    LET j == IF i = 1 THEN Len(poly) ELSE i - 1
        xi == poly[i].x
        yi == poly[i].y
        xj == poly[j].x
        yj == poly[j].y
        d == yj - yi
        num == (xj - xi) * (y - yi)
    IN  /\ (yi >= y) # (yj >= y)
        /\ IF d > 0 THEN (x - xi) * d < num ELSE (x - xi) * d > num

\* edge i of the polygon runs from vertex j = i - 1 (the last one for the
\* first) to vertex i.  The source compares x with a quotient of integers
\* below 2^53; cross-multiplying by the sign of yj - yi is the same test.
EdgeCrosses(x, y, poly, i) ==
    LET j == IF i = 1 THEN Len(poly) ELSE i - 1
        xi == poly[i].x
        yi == poly[i].y
        xj == poly[j].x
        yj == poly[j].y
        d == yj - yi
        num == (xj - xi) * (y - yi)
    IN  /\ (yi > y) # (yj > y)
        /\ IF d > 0 THEN (x - xi) * d < num ELSE (x - xi) * d > num

pointInPolygon(x, y, poly) ==
    Cardinality({i \in 1 .. Len(poly) : EdgeCrosses(x, y, poly, i)}) % 2 = 1

LassoMask(poly, cw, ch) ==
    {i \in 0 .. (cw * ch - 1) : pointInPolygon(i % cw, i \div cw, poly)}

\* a mask that is kept when it is empty
MaskAlways(m) == Some(m)

\* mask.size ? mask : null
MaskOrNull(m) == IF m = {} THEN Null ELSE Some(m)

\* what finishLasso does to the store
finishLassoDo ==
    /\ IF selectionPath = Null \/ Len(selectionPath[1]) < 3
       THEN /\ clearSelection
            /\ UNCHANGED <<cfgVars, frameVars, uiAviso, clipboard, undoStack, recentColors, srcVars>>
       ELSE /\ selectionMask' = MaskOrNull(LassoMask(selectionPath[1], w, h))
            /\ isSelecting' = FALSE
            /\ UNCHANGED <<cfgVars, frameVars, uiAviso, selectionPath, moveVars, clipboard,
                           undoStack, recentColors, srcVars>>

finishLasso ==
    /\ op' = Call("finishLasso", <<>>)
    /\ UNCHANGED uiVars
    /\ prior' = Null
    /\ finishLassoDo

clearSelectionCall ==
    /\ op' = Call("clearSelection", <<>>)
    /\ UNCHANGED uiVars
    /\ prior' = Null
    /\ clearSelection
    /\ UNCHANGED <<cfgVars, frameVars, uiAviso, clipboard, undoStack, recentColors, srcVars>>

(* ------------------------------------------------------------------ *)
(* Moving the selection                                                *)
(* ------------------------------------------------------------------ *)
\* a lift that zeroes the whole frame, not the mask only
LiftedWhole(fr, mask) == [i \in DOMAIN fr |-> Transparent]

\* base: the frame with the masked pixels zeroed
Lifted(fr, mask) == [i \in DOMAIN fr |-> IF i \in mask THEN Transparent ELSE fr[i]]

\* floatMap: idx -> frame[idx] for every idx of the mask
Floating(fr, mask) == [idx \in mask |-> Read(fr, idx)]

\* what startMoveSelection does to the store
startMoveSelectionDo(startX, startY) ==
    /\ IF selectionMask = Null \/ selectionMask[1] = {}
       THEN UNCHANGED storeVars
       ELSE /\ undoStack' = Pushed(undoStack, frames, active)
            /\ baseWhileMoving' = Some(Lifted(activeFrame, selectionMask[1]))
            /\ floatingPixels' = Some(Floating(activeFrame, selectionMask[1]))
            /\ moving' = TRUE
            /\ moveStart' = Some(Pt(startX, startY))
            /\ moveDx' = 0
            /\ moveDy' = 0
            /\ UNCHANGED <<cfgVars, frameVars, uiAviso, selVars, clipboard, recentColors, srcVars>>

startMoveSelection(startX, startY) ==
    /\ op' = Call("startMoveSelection", <<startX, startY>>)
    /\ UNCHANGED uiVars
    /\ prior' = IF selectionMask = Null \/ selectionMask[1] = {} THEN Null ELSE Before
    /\ startMoveSelectionDo(startX, startY)

\* a displacement measured from the canvas origin instead of the grab point
updateMoveSelectionAbsolute(currX, currY) ==
    /\ IF ~moving \/ moveStart = Null
       THEN UNCHANGED storeVars
       ELSE /\ moveDx' = currX
            /\ moveDy' = currY
            /\ UNCHANGED <<cfgVars, frameVars, uiAviso, selVars, moving, moveStart,
                           floatingPixels, baseWhileMoving, clipboard, undoStack,
                           recentColors, srcVars>>

\* what updateMoveSelection does to the store
updateMoveSelectionDo(currX, currY) ==
    /\ IF ~moving \/ moveStart = Null
       THEN UNCHANGED storeVars
       ELSE /\ moveDx' = currX - moveStart[1].x
            /\ moveDy' = currY - moveStart[1].y
            /\ UNCHANGED <<cfgVars, frameVars, uiAviso, selVars, moving, moveStart,
                           floatingPixels, baseWhileMoving, clipboard, undoStack,
                           recentColors, srcVars>>

updateMoveSelection(currX, currY) ==
    /\ op' = Call("updateMoveSelection", <<currX, currY>>)
    /\ UNCHANGED uiVars
    /\ prior' = IF op.name \in {"startMoveSelection", "updateMoveSelection"} THEN prior ELSE Null
    /\ updateMoveSelectionDo(currX, currY)

\* a target that wraps around the left and right edges
TargetWrapped(idx, dx, dy, cw, ch) ==
    LET nx == ((idx % cw) + dx) % cw
        ny == (idx \div cw) + dy
    IN  IF InBounds(nx, ny, cw, ch) THEN ny * cw + nx ELSE -1

\* where the floating pixel lifted from idx lands, or -1 when it leaves the canvas
Target(idx, dx, dy, cw, ch) ==
    LET nx == (idx % cw) + dx
        ny == (idx \div cw) + dy
    IN  IF InBounds(nx, ny, cw, ch) THEN ny * cw + nx ELSE -1

\* out: base overlaid with every floating pixel whose target is on the canvas
Dropped(base, fl, dx, dy, cw, ch) ==
    [i \in DOMAIN base |->
        IF \E idx \in DOMAIN fl : Target(idx, dx, dy, cw, ch) = i
        THEN ToUint32(fl[CHOOSE idx \in DOMAIN fl : Target(idx, dx, dy, cw, ch) = i])
        ELSE base[i]]

\* a mask that keeps an entry for the pixels that left the canvas
MovedMaskWithLost(fl, dx, dy, cw, ch) ==
    {Target(idx, dx, dy, cw, ch) : idx \in DOMAIN fl}

MovedMask(fl, dx, dy, cw, ch) ==
    {Target(idx, dx, dy, cw, ch) : idx \in DOMAIN fl} \ {-1}

\* what endMoveSelection does to the store
endMoveSelectionDo ==
    /\ IF ~moving
       THEN UNCHANGED storeVars
       ELSE IF baseWhileMoving = Null \/ floatingPixels = Null \/ selectionMask = Null
       THEN /\ stopMoving
            /\ UNCHANGED <<cfgVars, frameVars, uiAviso, selVars, clipboard, undoStack,
                           recentColors, srcVars>>
       ELSE /\ frames' = replaceActiveFrame(frames, active,
                            Dropped(baseWhileMoving[1], floatingPixels[1], moveDx, moveDy, w, h))
            /\ selectionMask' = MaskOrNull(MovedMask(floatingPixels[1], moveDx, moveDy, w, h))
            /\ stopMoving
            /\ UNCHANGED <<cfgVars, active, uiAviso, selectionPath, isSelecting, clipboard,
                           undoStack, recentColors, srcVars>>

endMoveSelection ==
    /\ op' = Call("endMoveSelection", <<>>)
    /\ UNCHANGED uiVars
    /\ prior' = Null
    /\ endMoveSelectionDo

(* ------------------------------------------------------------------ *)
(* Copy, paste, delete                                                 *)
(* ------------------------------------------------------------------ *)
SetMin(S) == CHOOSE m \in S : \A e \in S : m <= e
SetMax(S) == CHOOSE m \in S : \A e \in S : m >= e

boundsFromMask(mask, width) ==
    [minX |-> SetMin({i % width : i \in mask}),
     minY |-> SetMin({i \div width : i \in mask}),
     maxX |-> SetMax({i % width : i \in mask}),
     maxY |-> SetMax({i \div width : i \in mask})]

\* a copy of the whole bounding box, masked or not
CopiedBox(fr, mask, width) ==
    LET b == boundsFromMask(mask, width)
        cw == b.maxX - b.minX + 1
        ch == b.maxY - b.minY + 1
    IN  [w |-> cw,
         h |-> ch,
         pixels |-> [k \in 0 .. (cw * ch - 1) |->
                        ToUint32(Read(fr, ((k \div cw) + b.minY) * width + (k % cw) + b.minX))]]

\* the clipboard made of the masked pixels of fr
Copied(fr, mask, width) ==
    LET b == boundsFromMask(mask, width)
        cw == b.maxX - b.minX + 1
        ch == b.maxY - b.minY + 1
    IN  [w |-> cw,
         h |-> ch,
         pixels |-> [k \in 0 .. (cw * ch - 1) |->
                        LET idx == ((k \div cw) + b.minY) * width + (k % cw) + b.minX
                        IN  IF idx \in mask THEN ToUint32(Read(fr, idx)) ELSE Transparent]]

copySelection ==
    /\ op' = Call("copySelection", <<>>)
    /\ UNCHANGED uiVars
    /\ prior' = IF selectionMask = Null \/ selectionMask[1] = {} THEN Null ELSE Before
    /\ IF selectionMask = Null \/ selectionMask[1] = {}
       THEN UNCHANGED storeVars
       ELSE /\ clipboard' = Some(Copied(activeFrame, selectionMask[1], w))
            /\ uiAviso' = Aviso("Seleccion copiada", <<>>)
            /\ UNCHANGED <<cfgVars, frameVars, selVars, moveVars, undoStack, recentColors, srcVars>>

\* a paste that writes transparent clipboard cells too
PasteSourceAnyAlpha(clip, atX, atY, i, cw, ch) ==
    LET cx == (i % cw) - atX
        cy == (i \div cw) - atY
    IN  IF i < cw * ch /\ cx >= 0 /\ cx < clip.w /\ cy >= 0 /\ cy < clip.h
        THEN cy * clip.w + cx
        ELSE -1

\* the cell of clip that pasting at (atX, atY) writes to index i, or -1
PasteSource(clip, atX, atY, i, cw, ch) ==
    LET cx == (i % cw) - atX
        cy == (i \div cw) - atY
    IN  IF /\ i < cw * ch
           /\ cx >= 0 /\ cx < clip.w /\ cy >= 0 /\ cy < clip.h
           /\ Alpha(clip.pixels[cy * clip.w + cx]) # 0
        THEN cy * clip.w + cx
        ELSE -1

\* a paste that writes only where the frame is transparent
PastedUnder(fr, clip, atX, atY, cw, ch) ==
    [i \in DOMAIN fr |->
        IF PasteSource(clip, atX, atY, i, cw, ch) # -1 /\ Alpha(fr[i]) = 0
        THEN clip.pixels[PasteSource(clip, atX, atY, i, cw, ch)]
        ELSE fr[i]]

Pasted(fr, clip, atX, atY, cw, ch) ==
    [i \in DOMAIN fr |->
        IF PasteSource(clip, atX, atY, i, cw, ch) # -1
        THEN clip.pixels[PasteSource(clip, atX, atY, i, cw, ch)]
        ELSE fr[i]]

PastedMask(clip, atX, atY, cw, ch) ==
    {i \in 0 .. (cw * ch - 1) : PasteSource(clip, atX, atY, i, cw, ch) # -1}

pasteClipboard(atX, atY) ==
    /\ op' = Call("pasteClipboard", <<atX, atY>>)
    /\ UNCHANGED uiVars
    /\ prior' = Null
    /\ IF clipboard = Null
       THEN UNCHANGED storeVars
       ELSE /\ undoStack' = Pushed(undoStack, frames, active)
            /\ frames' = replaceActiveFrame(frames, active,
                                            Pasted(activeFrame, clipboard[1], atX, atY, w, h))
            /\ selectionMask' = MaskOrNull(PastedMask(clipboard[1], atX, atY, w, h))
            /\ UNCHANGED <<cfgVars, active, uiAviso, selectionPath, isSelecting, moveVars,
                           clipboard, recentColors, srcVars>>

\* deleteSelectionPixels without the early return: no mask deletes nothing
\* but still pushes a snapshot
deleteSelectionPixelsUnguarded ==
    LET mask == IF selectionMask = Null THEN {} ELSE selectionMask[1]
    IN  /\ op' = Call("deleteSelectionPixels", <<>>)
        /\ UNCHANGED uiVars
        /\ prior' = Null
        /\ undoStack' = Pushed(undoStack, frames, active)
        /\ frames' = replaceActiveFrame(frames, active, Lifted(activeFrame, mask))
        /\ UNCHANGED <<cfgVars, active, uiAviso, selVars, moveVars, clipboard,
                       recentColors, srcVars>>

deleteSelectionPixels ==
    /\ op' = Call("deleteSelectionPixels", <<>>)
    /\ UNCHANGED uiVars
    /\ prior' = Null
    /\ IF selectionMask = Null \/ selectionMask[1] = {}
       THEN UNCHANGED storeVars
       ELSE /\ undoStack' = Pushed(undoStack, frames, active)
            /\ frames' = replaceActiveFrame(frames, active,
                                            Lifted(activeFrame, selectionMask[1]))
            /\ UNCHANGED <<cfgVars, active, uiAviso, selVars, moveVars, clipboard,
                           recentColors, srcVars>>

(* ------------------------------------------------------------------ *)
(* Image import                                                        *)
(* ------------------------------------------------------------------ *)
\* the image centred on a cw x ch frame and clipped to it
Imported(img, cw, ch) ==
    LET offsetX == HalfDiff(cw, img.w)
        offsetY == HalfDiff(ch, img.h)
    IN  [i \in 0 .. (cw * ch - 1) |->
            LET sx == (i % cw) - offsetX
                sy == (i \div cw) - offsetY
            IN  IF sx >= 0 /\ sx < Min2(cw, img.w) /\ sy >= 0 /\ sy < Min2(ch, img.h)
                THEN ToUint32(img.data[sy * img.w + sx])
                ELSE Transparent]

importarImagen(img, comoNuevo) ==
    /\ op' = Call("importarImagen", <<img, comoNuevo>>)
    /\ UNCHANGED uiVars
    /\ prior' = Null
    /\ uiAviso' = IF img.w > w \/ img.h > h
                  THEN Aviso("la imagen es mas grande que el lienzo", <<img.w, img.h, w, h>>)
                  ELSE Null
    /\ undoStack' = Pushed(undoStack, frames, active)
    /\ IF comoNuevo
       THEN /\ frames' = Append(frames, Imported(img, w, h))
            /\ active' = Len(frames') - 1
       ELSE /\ frames' = replaceActiveFrame(frames, active, Imported(img, w, h))
            /\ active' = active
    /\ clearSelection
    /\ UNCHANGED <<cfgVars, clipboard, recentColors, srcVars>>

(* ------------------------------------------------------------------ *)
(* The source image and the crop to a frame                            *)
(* ------------------------------------------------------------------ *)
importarFuente(img) ==
    /\ op' = Call("importarFuente", <<img>>)
    /\ UNCHANGED uiVars
    /\ prior' = Null
    /\ sourceCanvas' = Some(img)
    /\ sourceW' = img.w
    /\ sourceH' = img.h
    /\ sourceZoom' = 1
    /\ sourcePanX' = 0
    /\ sourcePanY' = 0
    /\ sourceSel' = Null
    /\ uiAviso' = Aviso("Fuente importada", <<img.w, img.h>>)
    /\ UNCHANGED <<cfgVars, frameVars, selVars, moveVars, clipboard, undoStack, recentColors>>

setSourceSel(sel) ==
    /\ op' = Call("setSourceSel", <<sel>>)
    /\ UNCHANGED uiVars
    /\ prior' = Null
    /\ sourceSel' = sel
    /\ UNCHANGED <<cfgVars, frameVars, uiAviso, selVars, moveVars, clipboard, undoStack,
                   recentColors, sourceCanvas, sourceW, sourceH, sourceZoom, sourcePanX,
                   sourcePanY>>

\* the rectangle (sx, sy, sw, sh) of src drawn onto a cw x ch canvas without
\* smoothing: every output pixel takes the source pixel it falls on
Stretched(src, sx, sy, sw, sh, cw, ch) ==
    [i \in 0 .. (cw * ch - 1) |->
        ToUint32(src.data[(sy + ((i \div cw) * sh) \div ch) * src.w
                          + sx + ((i % cw) * sw) \div cw])]

recortarFuenteAFrame(comoNuevo) ==
    /\ op' = Call("recortarFuenteAFrame", <<comoNuevo>>)
    /\ UNCHANGED uiVars
    /\ prior' = Null
    /\ IF sourceCanvas = Null
       THEN /\ uiAviso' = Aviso("No hay Fuente cargada", <<>>)
            /\ UNCHANGED <<cfgVars, frameVars, selVars, moveVars, clipboard, undoStack,
                           recentColors, srcVars>>
       ELSE IF sourceSel = Null \/ sourceSel[1].w <= 0 \/ sourceSel[1].h <= 0
       THEN /\ uiAviso' = Aviso("Selecciona un rectangulo en la Fuente", <<>>)
            /\ UNCHANGED <<cfgVars, frameVars, selVars, moveVars, clipboard, undoStack,
                           recentColors, srcVars>>
       ELSE LET sel == sourceSel[1]
                sx == Max2(0, Min2(sourceW - 1, sel.x))
                sy == Max2(0, Min2(sourceH - 1, sel.y))
                sw == Max2(1, Min2(sourceW - sx, sel.w))
                sh == Max2(1, Min2(sourceH - sy, sel.h))
                out == Stretched(sourceCanvas[1], sx, sy, sw, sh, w, h)
            IN  /\ undoStack' = Pushed(undoStack, frames, active)
                /\ IF comoNuevo
                   THEN /\ frames' = Append(frames, out)
                        /\ active' = Len(frames') - 1
                   ELSE /\ frames' = replaceActiveFrame(frames, active, out)
                        /\ active' = active
                /\ clearSelection
                /\ uiAviso' = Aviso("Recorte aplicado", <<sw, sh, w, h>>)
                /\ UNCHANGED <<cfgVars, clipboard, recentColors, srcVars>>

(* ------------------------------------------------------------------ *)
(* Autocrop and centring                                               *)
(* ------------------------------------------------------------------ *)
\* every cell of the canvas, whatever its alpha
OpaqueIndicesAll(fr, cw, ch) == 0 .. (cw * ch - 1)

\* the cells of the cw x ch canvas where fr has non-zero alpha
OpaqueIndices(fr, cw, ch) == {i \in 0 .. (cw * ch - 1) : Alpha(Read(fr, i)) # 0}

\* a crop that forgets the corner of the rectangle
CroppedFromOrigin(fr, minX, minY, newW, newH, cw) ==
    [i \in 0 .. (newW * newH - 1) |-> ToUint32(Read(fr, (i \div newW) * cw + (i % newW)))]

\* the newW x newH rectangle of fr whose corner is (minX, minY)
Cropped(fr, minX, minY, newW, newH, cw) ==
    [i \in 0 .. (newW * newH - 1) |->
        ToUint32(Read(fr, (minY + (i \div newW)) * cw + (minX + (i % newW))))]

\* the middle rounded up
TargetMinCeil(size, content) == (size - content + 1) \div 2

\* Math.floor((W - contentW) / 2)
TargetMin(size, content) == (size - content) \div 2

\* the only element of a one-element set
Only(S) == CHOOSE e \in S : TRUE

\* a new zeroed frame with the pixels of non-zero alpha of fr written
\* (dx, dy) further, those that stay on the canvas
Translated(fr, cw, ch, dx, dy) ==
    [i \in 0 .. (cw * ch - 1) |->
        LET ox == (i % cw) - dx
            oy == (i \div cw) - dy
        IN  IF InBounds(ox, oy, cw, ch) /\ Alpha(Read(fr, oy * cw + ox)) # 0
            THEN ToUint32(Read(fr, oy * cw + ox))
            ELSE Transparent]

\* the frame with its content of non-zero alpha moved to the middle
centrarFrame(fr, cw, ch) ==
    IF OpaqueIndices(fr, cw, ch) = {} THEN fr
    ELSE Only({IF TargetMin(cw, b.maxX - b.minX + 1) = b.minX
                  /\ TargetMin(ch, b.maxY - b.minY + 1) = b.minY
               THEN fr
               ELSE Translated(fr, cw, ch,
                               TargetMin(cw, b.maxX - b.minX + 1) - b.minX,
                               TargetMin(ch, b.maxY - b.minY + 1) - b.minY) :
               b \in {boundsFromMask(OpaqueIndices(fr, cw, ch), cw)}})

autocropTodos(padding, centrar) ==
    \E O \in {UNION {OpaqueIndices(frames[k], w, h) : k \in 1 .. Len(frames)}} :
        /\ op' = Call("autocropTodos", <<padding, centrar>>)
        /\ UNCHANGED uiVars
        /\ prior' = Before
        /\ IF O = {}
           THEN /\ uiAviso' = Aviso("No hay pixeles dibujados para recortar.", <<>>)
                /\ UNCHANGED <<cfgVars, frameVars, selVars, moveVars, clipboard,
                               undoStack, recentColors, srcVars>>
           ELSE \E b \in {boundsFromMask(O, w)} :
                LET pad == Max2(0, padding)
                    minX == Max2(0, b.minX - pad)
                    minY == Max2(0, b.minY - pad)
                    maxX == Min2(w - 1, b.maxX + pad)
                    maxY == Min2(h - 1, b.maxY + pad)
                    newW == maxX - minX + 1
                    newH == maxY - minY + 1
                IN  /\ undoStack' = Pushed(undoStack, frames, active)
                    /\ frames' = [k \in 1 .. Len(frames) |->
                           IF centrar
                           THEN centrarFrame(Cropped(frames[k], minX, minY, newW, newH, w),
                                             newW, newH)
                           ELSE Cropped(frames[k], minX, minY, newW, newH, w)]
                    /\ w' = newW
                    /\ h' = newH
                    /\ clearSelection
                    /\ uiAviso' = Aviso(IF centrar THEN "Autocrop listo y centrado"
                                                   ELSE "Autocrop listo",
                                        <<w, h, newW, newH>>)
                    /\ UNCHANGED <<tool, color, brushRadius, active, clipboard,
                                   recentColors, srcVars>>

centrarFrameActivo ==
    /\ op' = Call("centrarFrameActivo", <<>>)
    /\ UNCHANGED uiVars
    /\ prior' = Before
    /\ undoStack' = Pushed(undoStack, frames, active)
    /\ frames' = replaceActiveFrame(frames, active, centrarFrame(activeFrame, w, h))
    /\ clearSelection
    /\ uiAviso' = Aviso("Contenido centrado en el fotograma activo.", <<>>)
    /\ UNCHANGED <<cfgVars, active, clipboard, recentColors, srcVars>>

(* ------------------------------------------------------------------ *)
(* Flood fill (PixelCanvasComponent.floodFill)                         *)
(* ------------------------------------------------------------------ *)
\* a fill that does not spread upwards
NeighboursNoUp(x, y, cw, ch) ==
    (IF x > 0 THEN <<Pt(x - 1, y)>> ELSE <<>>)
    \o (IF x < cw - 1 THEN <<Pt(x + 1, y)>> ELSE <<>>)
    \o (IF y < ch - 1 THEN <<Pt(x, y + 1)>> ELSE <<>>)

\* what one iteration pushes on q, in the order it pushes
Neighbours(x, y, cw, ch) ==
    (IF x > 0 THEN <<Pt(x - 1, y)>> ELSE <<>>)
    \o (IF x < cw - 1 THEN <<Pt(x + 1, y)>> ELSE <<>>)
    \o (IF y > 0 THEN <<Pt(x, y - 1)>> ELSE <<>>)
    \o (IF y < ch - 1 THEN <<Pt(x, y + 1)>> ELSE <<>>)

\* one iteration of the while loop on st = [out, q]; q is popped from its
\* end; a loop that has ended (q empty) stays as it is
FillStep(st, oldColor, newColor, cw, ch) ==
    IF st.q = <<>> THEN st
    ELSE LET p == st.q[Len(st.q)]
             rest == SubSeq(st.q, 1, Len(st.q) - 1)
             idx == p.y * cw + p.x
         IN  IF st.out[idx] # oldColor
             THEN [out |-> st.out, q |-> rest]
             ELSE [out |-> [st.out EXCEPT ![idx] = ToUint32(newColor)],
                   q |-> rest \o Neighbours(p.x, p.y, cw, ch)]

\* four and sixteen iterations
FillStep4(st, oldColor, newColor, cw, ch) ==
    FillStep(FillStep(FillStep(FillStep(st, oldColor, newColor, cw, ch),
                               oldColor, newColor, cw, ch),
                      oldColor, newColor, cw, ch),
             oldColor, newColor, cw, ch)

FillStep16(st, oldColor, newColor, cw, ch) ==
    FillStep4(FillStep4(FillStep4(FillStep4(st, oldColor, newColor, cw, ch),
                                  oldColor, newColor, cw, ch),
                        oldColor, newColor, cw, ch),
              oldColor, newColor, cw, ch)

\* the while loop.  A loop that ends writes each pixel at most once and
\* pushes at most four points per write, so it ends within 4*cw*ch + 1
\* iterations; the result is Null when the loop is still running after
\* `rounds` times sixteen iterations.
RECURSIVE FillLoop(_, _, _, _, _, _)
FillLoop(st, oldColor, newColor, cw, ch, rounds) ==
    IF st.q = <<>> THEN Some(st.out)
    ELSE IF rounds = 0 THEN Null
    ELSE FillLoop(FillStep16(st, oldColor, newColor, cw, ch),
                  oldColor, newColor, cw, ch, rounds - 1)

\* floodFill(x0, y0, activeFrame, w, h, newColor) as applyTool calls it.
\* When the loop never ends the call never returns: the store is as it was
\* and the last call stays "floodFill.running".
floodFill(x0, y0, newColor) ==
    /\ prior' = Null
    /\ IF ~InBounds(x0, y0, w, h)
       THEN /\ op' = Call("floodFill", <<x0, y0, newColor>>)
            /\ UNCHANGED uiVars
            /\ UNCHANGED storeVars
       ELSE LET oldColor == Read(activeFrame, y0 * w + x0)
            IN  IF oldColor = newColor
                THEN /\ op' = Call("floodFill", <<x0, y0, newColor>>)
                     /\ UNCHANGED uiVars
                     /\ UNCHANGED storeVars
                ELSE LET res == FillLoop([out |-> activeFrame, q |-> <<Pt(x0, y0)>>],
                                         oldColor, newColor, w, h,
                                         ((4 * w * h + 1) \div 16) + 1)
                     IN  IF res = Null
                         THEN /\ op' = Call("floodFill.running", <<x0, y0, newColor>>)
                              /\ UNCHANGED uiVars
                              /\ UNCHANGED storeVars
                         ELSE /\ op' = Call("floodFill", <<x0, y0, newColor>>)
                              /\ UNCHANGED uiVars
                              /\ frames' = replaceActiveFrame(frames, active, res[1])
                              /\ UNCHANGED <<cfgVars, active, uiAviso, selVars, moveVars,
                                             clipboard, undoStack, recentColors, srcVars>>

\* a call that never returns blocks the single thread: no handler runs
Hung == op.name = "floodFill.running"

(* ------------------------------------------------------------------ *)
(* Canvas component: pointer handlers                                  *)
(* ------------------------------------------------------------------ *)
\* the live state a pointer-down starts from, with the undo history
AtDown ==
    Some([frames |-> frames, active |-> active, w |-> w, h |-> h,
          mask |-> selectionMask, moving |-> moving, stack |-> undoStack,
          tool |-> tool, cut |-> FALSE, resumed |-> FALSE])

\* the pointer-down state of the stroke in progress: kept from handler to
\* handler, marked when an undo has run in between (cut) and when a
\* pointer-move has followed that undo (resumed), dropped after any other
\* call
StrokePrior(resumes) ==
    IF op.name \in {"onDown", "onMove"} THEN prior
    ELSE IF op.name = "undo" /\ drawing /\ prior # Null /\ "cut" \in DOMAIN prior[1]
    THEN Some([prior[1] EXCEPT !.cut = TRUE, !.resumed = @ \/ resumes])
    ELSE Null

\* a beginStroke that pushes a snapshot before every stamp
beginStrokeAlways(pushed) == Pushed(undoStack, frames, active)

\* the undo history after beginStroke(): pushUndo() unless this stroke has
\* pushed already
beginStroke(pushed) ==
    IF pushed THEN undoStack ELSE Pushed(undoStack, frames, active)

\* applyTool(x, y) entered with strokeUndoPushed = pushed; call names the
\* handler that runs it
applyTool(x, y, pushed, call) ==
    IF tool \in {"pencil", "eraser"}
    THEN LET col == IF tool = "pencil" THEN color ELSE Transparent
         IN  /\ undoStack' = beginStroke(pushed)
             /\ strokeUndoPushed' = TRUE
             /\ frames' = replaceActiveFrame(frames, active,
                               Stamped(activeFrame, x, y, brushRadius, col, w, h))
             /\ recentColors' = IF tool = "pencil" THEN RecentPushed(recentColors, col)
                                ELSE recentColors
             /\ op' = call
             /\ UNCHANGED <<cfgVars, active, uiAviso, selVars, moveVars, clipboard, srcVars>>
    ELSE IF tool = "picker"
    THEN /\ color' = IF InBounds(x, y, w, h) THEN Read(activeFrame, y * w + x) ELSE color
         /\ strokeUndoPushed' = pushed
         /\ op' = call
         /\ UNCHANGED <<w, h, tool, brushRadius, frameVars, uiAviso, selVars, moveVars,
                        clipboard, undoStack, recentColors, srcVars>>
    ELSE IF tool = "fill"
    THEN /\ undoStack' = Pushed(undoStack, frames, active)
         /\ strokeUndoPushed' = pushed
         /\ UNCHANGED <<cfgVars, active, uiAviso, selVars, moveVars, clipboard, srcVars>>
         /\ IF ~InBounds(x, y, w, h) \/ Read(activeFrame, y * w + x) = color
            THEN /\ frames' = frames
                 /\ recentColors' = RecentPushed(recentColors, color)
                 /\ op' = call
            ELSE \E res \in {FillLoop([out |-> activeFrame, q |-> <<Pt(x, y)>>],
                                      Read(activeFrame, y * w + x), color, w, h,
                                      ((4 * w * h + 1) \div 16) + 1)} :
                     IF res = Null
                     THEN /\ frames' = frames
                          /\ recentColors' = recentColors
                          /\ op' = Call("floodFill.running", <<x, y, color>>)
                     ELSE /\ frames' = replaceActiveFrame(frames, active, res[1])
                          /\ recentColors' = RecentPushed(recentColors, color)
                          /\ op' = call
    ELSE /\ strokeUndoPushed' = pushed
         /\ op' = call
         /\ UNCHANGED storeVars

onDown(x, y, shiftKey, button) ==
    /\ mousePixel' = Pt(x, y)
    /\ prior' = AtDown
    /\ UNCHANGED playerVars
    /\ IF shiftKey /\ button = 0
       THEN /\ startMoveSelectionDo(x, y)
            /\ op' = Call("onDown", <<x, y, shiftKey, button>>)
            /\ UNCHANGED <<drawing, strokeUndoPushed>>
       ELSE IF tool = "lasso"
       THEN /\ startLassoDo(x, y)
            /\ op' = Call("onDown", <<x, y, shiftKey, button>>)
            /\ UNCHANGED <<drawing, strokeUndoPushed>>
       ELSE /\ drawing' = TRUE
            /\ applyTool(x, y, FALSE, Call("onDown", <<x, y, shiftKey, button>>))

onMove(x, y) ==
    /\ mousePixel' = Pt(x, y)
    /\ UNCHANGED playerVars
    /\ prior' = StrokePrior(TRUE)
    /\ IF moving
       THEN /\ updateMoveSelectionDo(x, y)
            /\ op' = Call("onMove", <<x, y>>)
            /\ UNCHANGED <<drawing, strokeUndoPushed>>
       ELSE IF isSelecting
       THEN /\ pushLassoPointDo(x, y)
            /\ op' = Call("onMove", <<x, y>>)
            /\ UNCHANGED <<drawing, strokeUndoPushed>>
       ELSE IF ~drawing
       THEN /\ op' = Call("onMove", <<x, y>>)
            /\ UNCHANGED <<storeVars, drawing, strokeUndoPushed>>
       ELSE /\ drawing' = drawing
            /\ applyTool(x, y, strokeUndoPushed, Call("onMove", <<x, y>>))

onUp ==
    /\ op' = Call("onUp", <<>>)
    /\ UNCHANGED playerVars
    /\ prior' = StrokePrior(FALSE)
    /\ mousePixel' = mousePixel
    /\ IF moving
       THEN /\ endMoveSelectionDo
            /\ UNCHANGED <<drawing, strokeUndoPushed>>
       ELSE /\ IF isSelecting THEN finishLassoDo ELSE UNCHANGED storeVars
            /\ drawing' = FALSE
            /\ strokeUndoPushed' = FALSE

(* ------------------------------------------------------------------ *)
(* Inputs                                                              *)
(* ------------------------------------------------------------------ *)
OPAQUE2 == ARGB(255, 255, 0, 0)

\* requested canvas sizes: below MIN, the minimum, one more
ResizeInputs == {<<5, 8>>, <<9, 8>>}

StampPoints == {Pt(1, 0)}
StampColors == {INK}

\* decoded images: one opaque pixel; a 2 x 1 strip
Images == {Image(1, 1, [i \in {0} |-> OPAQUE2])}

(* ------------------------------------------------------------------ *)
(* The store: frames, canvas size, import and history                  *)
(* ------------------------------------------------------------------ *)
CanPush == Len(undoStack) < MaxDepth
CanAdd == Len(frames) < MaxFrames

Next ==
    \/ undo
    \/ \E i \in 0 .. (MaxFrames - 1) : setActive(i)
    \/ \E p \in StampPoints, c \in StampColors : stamp(p.x, p.y, c)
    \/ CanPush /\ pushUndo
    \/ CanPush /\ CanAdd /\ addFrame
    \/ CanPush /\ CanAdd /\ duplicateFrame
    \/ CanPush /\ deleteFrame
    \/ CanPush /\ \E img \in Images, nuevo \in BOOLEAN :
                     (nuevo => CanAdd) /\ importarImagen(img, nuevo)
    \/ CanPush /\ \E nuevo \in BOOLEAN : (nuevo => CanAdd) /\ recortarFuenteAFrame(nuevo)

SpecStore == InitStore /\ [][Next]_vars

(* ------------------------------------------------------------------ *)
(* The frame list alone: add, duplicate, delete, select, paint, undo   *)
(* ------------------------------------------------------------------ *)
CanPushF == Len(undoStack) < MaxDepthF
CanAddF == Len(frames) < MaxFramesF

\* two frames painted in different colours with the pencil, the second one
\* active, and no history: from InitMin by stamp, addFrame, stamp, then
\* pushUndo until the older snapshot is shifted out and undo until the
\* stack is empty
InitFrames ==
    Started(MIN, MIN,
            <<Stamped(makeFrame(MIN, MIN, Transparent), 1, 0, 0, INK, MIN, MIN),
              Stamped(makeFrame(MIN, MIN, Transparent), 1, 0, 0, OPAQUE2, MIN, MIN)>>,
            1, <<OPAQUE2, INK>>, Null, Null)

NextFrames ==
    \/ undo
    \/ \E i \in 0 .. (MaxFramesF - 1) : setActive(i)
    \/ \E p \in StampPoints : stamp(p.x, p.y, OPAQUE2)
    \/ CanPushF /\ CanAddF /\ addFrame
    \/ CanPushF /\ CanAddF /\ duplicateFrame
    \/ CanPushF /\ deleteFrame

SpecFrames == InitFrames /\ [][NextFrames]_vars

(* ------------------------------------------------------------------ *)
(* From the constructor: resize, paint, add and undo                   *)
(* ------------------------------------------------------------------ *)
NextBoot ==
    \/ undo
    \/ \E p \in StampPoints : stamp(p.x, p.y, INK)
    \/ CanPush /\ CanAdd /\ addFrame
    \/ CanPush /\ deleteFrame
    \/ CanPush /\ \E sz \in ResizeInputs : setCanvasSize(sz[1], sz[2])

Spec == Init /\ [][NextBoot]_vars

(* ------------------------------------------------------------------ *)
(* Strokes on one frame: each is a pushUndo followed by a stamp on the  *)
(* next free pixel, so every snapshot differs from the others          *)
(* ------------------------------------------------------------------ *)
InkCount(fr) == Cardinality({i \in DOMAIN fr : fr[i] # Transparent})

NextHist ==
    \/ undo
    \/ /\ op.name # "pushUndo"
       /\ InkCount(activeFrame) < maxUndo + ExtraPushes
       /\ pushUndo
    \/ /\ op.name = "pushUndo"
       /\ stamp(InkCount(activeFrame) % w, InkCount(activeFrame) \div w, INK)

SpecHist == InitMin /\ [][NextHist]_vars

(* ------------------------------------------------------------------ *)
(* Selection on one frame: lasso, move, copy, delete, undo             *)
(* ------------------------------------------------------------------ *)
\* one frame with a black pixel at (0, 0) and a red one at (1, 0), painted
\* with the pencil, and no history: from InitMin by two stamps, then
\* pushUndo until the older snapshots are shifted out and undo until the
\* stack is empty
InitSel ==
    Started(MIN, MIN,
            <<Stamped(Stamped(makeFrame(MIN, MIN, Transparent), 0, 0, 0, INK, MIN, MIN),
                      1, 0, 0, OPAQUE2, MIN, MIN)>>,
            0, <<OPAQUE2, INK>>, Null, Null)

\* the pixels painted; the n-th vertex the pointer adds to a lasso started
\* at (0, 0), which closes the triangle (0,0) (2,0) (0,2) around pixels
\* 0, 1 and w; where a move is grabbed and where it is dragged to (one or
\* two pixels to the left)
SelStamps == {<<1, 0, OPAQUE2>>}
LassoVertex(n) == IF n = 1 THEN Pt(2, 0) ELSE IF n = 2 THEN Pt(0, 2) ELSE Pt(0, 0)
GrabPoints == {Pt(2, 0)}
DragPoints == {Pt(0, 0), Pt(1, 0)}

NextSel ==
    \/ undo
    \/ \E st \in SelStamps : stamp(st[1], st[2], st[3])
    \/ startLasso(0, 0)
    \/ /\ selectionPath # Null
       /\ Len(selectionPath[1]) < MaxPath
       /\ pushLassoPoint(LassoVertex(Len(selectionPath[1])).x,
                         LassoVertex(Len(selectionPath[1])).y)
    \/ finishLasso
    \/ clearSelectionCall
    \/ CanPush /\ \E p \in GrabPoints : startMoveSelection(p.x, p.y)
    \/ \E p \in DragPoints : updateMoveSelection(p.x, p.y)
    \/ endMoveSelection
    \/ copySelection
    \/ CanPush /\ deleteSelectionPixels

SpecSel == InitSel /\ [][NextSel]_vars

(* ------------------------------------------------------------------ *)
(* Painting with the brush on the second of two frames                 *)
(* ------------------------------------------------------------------ *)
\* the colour the colour input yields for #ff0000: hexToArgb's signed value
REDNEG == Int32ARGB(255, 255, 0, 0)

\* a painted frame and a blank active one, no history: from InitMin by
\* stamp, addFrame, then pushUndo until the older snapshots are shifted out
\* and undo until the stack is empty
InitPaint ==
    Started(MIN, MIN,
            <<Stamped(makeFrame(MIN, MIN, Transparent), 1, 0, 0, INK, MIN, MIN),
              makeFrame(MIN, MIN, Transparent)>>,
            1, <<INK>>, Null, Null)

\* centres of the brush: on the canvas, one pixel left of it, far off it
PaintPoints == {Pt(0, 0), Pt(-1, 0), Pt(-4, -4)}
PaintColors == {INK, REDNEG, Transparent}

NextPaint ==
    \/ \E r \in 0 .. MaxRadius : setBrushRadius(r)
    \/ \E p \in PaintPoints, c \in PaintColors : stamp(p.x, p.y, c)

SpecPaint == InitPaint /\ [][NextPaint]_vars

(* ------------------------------------------------------------------ *)
(* The recent colours: stamps of ever new colours and of an old one,   *)
(* under each tool                                                     *)
(* ------------------------------------------------------------------ *)
\* opaque black with k in the blue byte; Shade(0) is the initial colour
Shade(k) == ARGB(255, 0, 0, k)

\* the number of the newest shade registered
Newest(list) == SetMax({list[k][3] : k \in 1 .. Len(list)})

ToolsPainting == {"pencil", "eraser", "picker", "fill"}

\* the stamps land off the canvas: the frame stays as it is and the colour
\* is registered all the same
NextRecent ==
    \/ \E t \in ToolsPainting : setTool(t)
    \/ setColor(REDNEG)
    \/ /\ Newest(recentColors) < maxRecentColors + ExtraColors
       /\ stamp(-4, -4, Shade(Newest(recentColors) + 1))
    \/ \E c \in {Shade(1), Transparent} : stamp(-4, -4, c)

SpecRecent == InitMin /\ [][NextRecent]_vars

(* ------------------------------------------------------------------ *)
(* Filling: a frame split by a black column, and a blank second frame  *)
(* ------------------------------------------------------------------ *)
\* fr with the pencil stamped down column x from row 0 to row y
RECURSIVE ColumnDrawn(_, _, _, _, _)
ColumnDrawn(fr, x, y, cw, ch) ==
    IF y < 0 THEN fr
    ELSE Stamped(ColumnDrawn(fr, x, y - 1, cw, ch), x, y, 0, INK, cw, ch)

\* column 2 of the first frame drawn in black, a blank second frame, the
\* first one active, no history: from InitMin by MIN stamps, addFrame,
\* active.set(0), then pushUndo until the older snapshots are shifted out
\* and undo until the stack is empty
InitFill ==
    Started(MIN, MIN,
            <<ColumnDrawn(makeFrame(MIN, MIN, Transparent), 2, MIN - 1, MIN, MIN),
              makeFrame(MIN, MIN, Transparent)>>,
            0, <<INK>>, Null, Null)

\* left of the column, on it, right of it, off the canvas
FillPoints == {Pt(0, 0), Pt(2, 3), Pt(7, 7), Pt(-1, 0)}
\* the initial colour, the colour input's red, the red the picker reads
\* from a pixel, and transparent
FillColors == {INK, REDNEG, OPAQUE2, Transparent}

NextFill ==
    \/ ~Hung /\ \E c \in FillColors : setColor(c)
    \/ ~Hung /\ \E p \in FillPoints : floodFill(p.x, p.y, color)

SpecFill == InitFill /\ [][NextFill]_vars

(* ------------------------------------------------------------------ *)
(* The clipboard: select, copy on one frame, paste on another, delete  *)
(* ------------------------------------------------------------------ *)
\* fr with the pencil stamped on the pixels of pts, in any order
RECURSIVE Dotted(_, _, _, _, _)
Dotted(fr, pts, col, cw, ch) ==
    IF pts = {} THEN fr
    ELSE LET p == CHOOSE q \in pts : TRUE
         IN  Stamped(Dotted(fr, pts \ {p}, col, cw, ch), p.x, p.y, 0, col, cw, ch)

\* the frame of InitSel (black at (0,0), red at (1,0)) and a second frame
\* with black at (1,0), (0,1) and (1,1); the first active, no history: from
\* InitMin by two stamps, addFrame, three stamps, active.set(0), then pushUndo
\* until the older snapshots are shifted out and undo until the stack is empty
InitClip ==
    Started(MIN, MIN,
            <<Stamped(Stamped(makeFrame(MIN, MIN, Transparent), 0, 0, 0, INK, MIN, MIN),
                      1, 0, 0, OPAQUE2, MIN, MIN),
              Dotted(makeFrame(MIN, MIN, Transparent), {Pt(1, 0), Pt(0, 1), Pt(1, 1)},
                     INK, MIN, MIN)>>,
            0, <<INK, OPAQUE2>>, Null, Null)

\* where the clipboard is pasted: at the selection's own corner, at the
\* far corner of the canvas (clipped), off the canvas
ClipPoints == {Pt(0, 0), Pt(7, 7), Pt(-2, -2)}

NextClip ==
    \/ \E i \in 0 .. 1 : setActive(i)
    \/ startLasso(0, 0)
    \/ /\ selectionPath # Null
       /\ Len(selectionPath[1]) < MaxPath
       /\ pushLassoPoint(LassoVertex(Len(selectionPath[1])).x,
                         LassoVertex(Len(selectionPath[1])).y)
    \/ finishLasso
    \/ copySelection
    \/ CanPush /\ \E p \in ClipPoints : pasteClipboard(p.x, p.y)
    \/ CanPush /\ deleteSelectionPixels

SpecClip == InitClip /\ [][NextClip]_vars

(* ------------------------------------------------------------------ *)
(* Resizing: the canvas grown, shrunk and clamped, with a selection    *)
(* ------------------------------------------------------------------ *)
\* the sizes asked for: below the minimum, the initial size, one and two
\* more, above the maximum
SizeInputs == {<<5, 8>>, <<8, 8>>, <<9, 8>>, <<9, 9>>, <<10, 8>>, <<600, 8>>}

NextResize ==
    \/ startLasso(0, 0)
    \/ /\ selectionPath # Null
       /\ Len(selectionPath[1]) < MaxPath
       /\ pushLassoPoint(LassoVertex(Len(selectionPath[1])).x,
                         LassoVertex(Len(selectionPath[1])).y)
    \/ finishLasso
    \/ /\ Len(undoStack) < MaxResizes
       /\ \E sz \in SizeInputs : setCanvasSize(sz[1], sz[2])

SpecResize == InitClip /\ [][NextResize]_vars

(* ------------------------------------------------------------------ *)
(* Placement: images imported and the canvas resized around them       *)
(* ------------------------------------------------------------------ *)
\* a pixel of alpha 0 that carries colour bits, 0x00000001
FAINT == ARGB(0, 0, 0, 1)

\* decoded images: two pixels, the second of alpha 0 with colour bits; a
\* strip two wider than the smallest canvas and a column one higher than
\* it, each pixel of its own colour
ImgPair == Image(2, 1, [i \in 0 .. 1 |-> IF i = 0 THEN OPAQUE2 ELSE FAINT])
ImgWide == Image(MIN + 2, 1, [i \in 0 .. (MIN + 1) |-> Shade(i + 1)])
ImgTall == Image(1, MIN + 1, [i \in 0 .. MIN |-> Shade(i + 1)])
PlaceImages == {ImgPair, ImgWide, ImgTall}

\* the sizes asked for: the smallest, one wider, two wider and one higher
PlaceSizes == {<<8, 8>>, <<9, 8>>, <<10, 9>>}

\* the smallest canvas with ImgPair imported on its only frame and no
\* history: from InitMin by importarImagen, then pushUndo until the older
\* snapshot is shifted out and undo until the stack is empty
InitImport ==
    Started(MIN, MIN, <<Imported(ImgPair, MIN, MIN)>>, 0, <<INK>>, Null, Null)

NextImport ==
    \/ /\ Len(undoStack) < MaxImports
       /\ \E img \in PlaceImages, comoNuevo \in BOOLEAN : importarImagen(img, comoNuevo)
    \/ /\ Len(undoStack) < MaxImports
       /\ \E sz \in PlaceSizes : setCanvasSize(sz[1], sz[2])
    \/ \E i \in 0 .. (Len(frames) - 1) : setActive(i)

SpecImport == InitImport /\ [][NextImport]_vars

(* ------------------------------------------------------------------ *)
(* Cropping and centring, from the constructor's 32 x 32 canvas        *)
(* ------------------------------------------------------------------ *)
CropPoints == {Pt(5, 5), Pt(8, 6)}
CropColors == {INK}
Paddings == {0, 1}

NextCrop ==
    \/ /\ Len(undoStack) < MaxCrops
       /\ \E p \in CropPoints, c \in CropColors : stamp(p.x, p.y, c)
    \/ \E i \in 0 .. (Len(frames) - 1) : setActive(i)
    \* a second frame is added before anything else is recorded
    \/ undoStack = <<>> /\ CanAdd /\ addFrame
    \/ /\ Len(undoStack) < MaxCrops
       /\ \E pad \in Paddings, centrar \in BOOLEAN : autocropTodos(pad, centrar)
    \/ Len(undoStack) < MaxCrops /\ centrarFrameActivo

SpecCrop == Init /\ [][NextCrop]_vars

(* ------------------------------------------------------------------ *)
(* The lasso alone: paths over a few pointer positions                 *)
(* ------------------------------------------------------------------ *)
\* pointer positions: the corners of a 2 x 2 square and a point beyond the
\* canvas
LassoPoints == {Pt(0, 0), Pt(2, 0), Pt(0, 2), Pt(2, 2), Pt(9, 9)}

NextLasso ==
    \/ \E p \in LassoPoints : startLasso(p.x, p.y)
    \/ /\ IF selectionPath = Null THEN TRUE ELSE Len(selectionPath[1]) < MaxVertices
       /\ \E p \in LassoPoints : pushLassoPoint(p.x, p.y)
    \/ finishLasso

SpecLasso == InitMin /\ [][NextLasso]_vars

(* ------------------------------------------------------------------ *)
(* Everything that touches the mask: lasso, move, paste, resize,       *)
(* autocrop, frames and undo, on one painted frame                     *)
(* ------------------------------------------------------------------ *)
CanPushM == Len(undoStack) < MaxDepthM

\* where the clipboard is pasted: one column right
MaskPastePoints == {Pt(1, 0)}

\* the size asked for: one wider
MaskSizes == {<<9, 8>>}

NextMask ==
    \/ undo
    \/ startLasso(0, 0)
    \/ /\ selectionPath # Null
       /\ Len(selectionPath[1]) < MaxPath
       /\ pushLassoPoint(LassoVertex(Len(selectionPath[1])).x,
                         LassoVertex(Len(selectionPath[1])).y)
    \/ finishLasso
    \/ CanPushM /\ selectionMask # Null /\ startMoveSelection(2, 0)
    \/ moving /\ \E p \in DragPoints : updateMoveSelection(p.x, p.y)
    \/ moving /\ endMoveSelection
    \/ selectionMask # Null /\ copySelection
    \/ CanPushM /\ clipboard # Null /\ \E p \in MaskPastePoints : pasteClipboard(p.x, p.y)
    \/ CanPushM /\ \E sz \in MaskSizes : setCanvasSize(sz[1], sz[2])
    \/ CanPushM /\ autocropTodos(0, FALSE)
    \/ CanPushM /\ CanAdd /\ addFrame

SpecMask == InitSel /\ [][NextMask]_vars

(* ================================================================== *)
(* Properties                                                          *)
(* ================================================================== *)
Top(stack) == stack[Len(stack)]
Pop(stack) == SubSeq(stack, 1, Len(stack) - 1)

(* C1: undo round trip.  Below the cap, a step either leaves the undo   *)
(* stack as it is, or pushes the live frames and active index on top    *)
(* of it, or is an undo, which removes the top snapshot and makes the   *)
(* frames and the active index equal to that snapshot.  So whatever     *)
(* edits follow a pushUndo in state S, the undo that pops its snapshot  *)
(* restores S, and successive undos restore in last-in-first-out order. *)
C1_UndoRoundTrip ==
    [][ /\ (Len(undoStack') >= Len(undoStack) /\ Len(undoStack) < maxUndo)
            => undoStack' \in {undoStack, Append(undoStack, Snapshot(frames, active))}
        /\ Len(undoStack') < Len(undoStack)
            => /\ op'.name = "undo"
               /\ undoStack' = Pop(undoStack)
               /\ frames' = Top(undoStack).frames
               /\ active' = Top(undoStack).active
        /\ (op'.name = "undo" /\ undoStack # <<>>) => Len(undoStack') < Len(undoStack)
      ]_vars

\* an undo has restored a state that differs from the snapshot still below it
C1_Witness ==
    /\ op.name = "undo"
    /\ Len(undoStack) = 1
    /\ Snapshot(frames, active) # undoStack[1]
    /\ undoStack[1].frames # <<makeFrame(w, h, Transparent)>>

(* C2: every frame buffer has w*h pixels for the current canvas size.     *)
C2_FrameLengthIsCanvasArea ==
    \A k \in 1 .. Len(frames) : DOMAIN frames[k] = 0 .. (w * h - 1)

\* the last call was a structural mutation that took effect
Mutated ==
    /\ prior # Null
    /\ op.name \in {"addFrame", "duplicateFrame", "deleteFrame", "setCanvasSize"}
    /\ op.name = "deleteFrame" => Len(prior[1].frames) >= 2
    /\ op.name = "setCanvasSize" => <<w, h>> # <<prior[1].w, prior[1].h>>

(* C3: a structural mutation that takes effect has pushed exactly one    *)
(* snapshot, and the undo that follows it at once brings back the        *)
(* frames, the active index and the canvas width and height it started   *)
(* from.                                                                  *)
C3_StructuralUndo ==
    [][ /\ (Mutated' /\ Len(undoStack) < maxUndo)
            => undoStack' = Append(undoStack, Snapshot(frames, active))
        /\ (Mutated /\ op'.name = "undo")
            => /\ frames' = prior[1].frames
               /\ active' = prior[1].active
               /\ w' = prior[1].w
               /\ h' = prior[1].h
      ]_vars

(* C4: the undo stack never holds more than maxUndo snapshots; a push   *)
(* on a full stack drops the oldest snapshot and keeps the others in     *)
(* order under the new one; so after more than maxUndo strokes the       *)
(* snapshots are the last maxUndo states in order, each one stroke       *)
(* older than the next, and an undo on the empty stack changes nothing.  *)
C4_BoundedHistory ==
    [][ /\ Len(undoStack') <= maxUndo
        /\ (op'.name = "pushUndo" /\ Len(undoStack) = maxUndo)
            => undoStack' = Append(Tail(undoStack), Snapshot(frames, active))
        /\ \A k \in 1 .. Len(undoStack') :
              InkCount(undoStack'[k].frames[1])
                = InkCount(frames'[1]) - (Len(undoStack') - k)
                    - (IF op'.name = "pushUndo" THEN 0 ELSE 1)
        /\ (op'.name = "undo" /\ undoStack # <<>>)
            => /\ undoStack' = Pop(undoStack)
               /\ frames' = Top(undoStack).frames
        /\ (op'.name = "undo" /\ undoStack = <<>>) => UNCHANGED storeVars
      ]_vars

\* after maxUndo + ExtraPushes strokes, maxUndo undos have emptied the
\* stack and a further undo has left the oldest kept state in place
C4_Witness ==
    /\ op.name = "undo"
    /\ prior = Null
    /\ undoStack = <<>>
    /\ InkCount(activeFrame) = ExtraPushes

(* C5: there is always at least one frame and the active index names    *)
(* one of the frames.                                                    *)
C5_FramesNonEmptyActiveInRange ==
    /\ Len(frames) >= 1
    /\ active \in 0 .. (Len(frames) - 1)

\* an undo has gone back from two frames, the second active, to one frame
C5_Witness ==
    /\ op.name = "undo"
    /\ Len(frames) = 1
    /\ active = 0
    /\ undoStack # <<>>

(* C9: deleteFrame with one frame changes nothing; with more it pushes   *)
(* one snapshot, removes exactly the active frame, keeps the others in   *)
(* order and makes max(0, i - 1) the active index.                       *)
C9_DeleteFrame ==
    [][ op'.name = "deleteFrame" =>
          IF Len(frames) = 1
          THEN UNCHANGED storeVars
          ELSE /\ Len(frames') = Len(frames) - 1
               /\ \A k \in 1 .. Len(frames') :
                     frames'[k] = IF k <= active THEN frames[k] ELSE frames[k + 1]
               /\ active' = IF active = 0 THEN 0 ELSE active - 1
               /\ undoStack' = Append(undoStack, Snapshot(frames, active))
      ]_vars

\* the middle one of three distinct frames has been deleted
C9_Witness ==
    /\ op.name = "deleteFrame"
    /\ Len(frames) = 2
    /\ active = 0
    /\ frames[1] # frames[2]
    /\ undoStack # <<>>
    /\ Len(Top(undoStack).frames) = 3
    /\ Top(undoStack).active = 1
    /\ Top(undoStack).frames[2] \notin {frames[1], frames[2]}

(* C10: addFrame and duplicateFrame keep the existing frames, append    *)
(* one frame and make it active; addFrame appends w*h transparent       *)
(* pixels, duplicateFrame a copy of the frame that was active; a later  *)
(* stamp changes no frame but the active one.                           *)
C10_AddDuplicate ==
    [][ /\ op'.name \in {"addFrame", "duplicateFrame"} =>
              /\ Len(frames') = Len(frames) + 1
              /\ SubSeq(frames', 1, Len(frames)) = frames
              /\ active' = Len(frames)
        /\ op'.name = "addFrame" =>
              /\ DOMAIN frames'[Len(frames')] = 0 .. (w * h - 1)
              /\ \A i \in 0 .. (w * h - 1) : frames'[Len(frames')][i] = Transparent
        /\ op'.name = "duplicateFrame" => frames'[Len(frames')] = frames[active + 1]
        /\ op'.name = "stamp" =>
              \A k \in 1 .. Len(frames) : k # active + 1 => frames'[k] = frames[k]
      ]_vars

\* a painted frame that was not the last one has been duplicated, and the
\* copy then painted on: the original is as it was
C10_Witness ==
    /\ Len(frames) = 3
    /\ active = 2
    /\ op.name = "stamp"
    /\ frames[1] # frames[2]
    /\ frames[3] # frames[1]
    /\ undoStack # <<>>
    /\ Top(undoStack).active = 0
    /\ Len(Top(undoStack).frames) = 2
    /\ Top(undoStack).frames = SubSeq(frames, 1, 2)

(* C6: move-commit is a pure translation.  When endMoveSelection        *)
(* follows a startMoveSelection on mask M and frame F with nothing but   *)
(* updateMoveSelection in between, the active frame becomes F with the   *)
(* pixels of M cleared and then each pixel of M whose target is on the   *)
(* canvas written at its target; the mask becomes the set of targets     *)
(* written, or null when there is none; the move state is idle.  Each    *)
(* updateMoveSelection sets the displacement to its argument minus the   *)
(* grab point.                                                            *)
C6_MoveCommitTranslates ==
    [][ /\ (op'.name = "updateMoveSelection" /\ moving /\ moveStart # Null)
            => /\ moveDx' = op'.args[1] - moveStart[1].x
               /\ moveDy' = op'.args[2] - moveStart[1].y
        /\ (/\ op'.name = "endMoveSelection"
            /\ op.name \in {"startMoveSelection", "updateMoveSelection"}
            /\ prior # Null)
            => LET F == prior[1].frames[prior[1].active + 1]
                   M == prior[1].mask[1]
                   OnCanvas(i) == /\ (i % w) + moveDx \in 0 .. (w - 1)
                                  /\ (i \div w) + moveDy \in 0 .. (h - 1)
                   To(i) == ((i \div w) + moveDy) * w + (i % w) + moveDx
                   Written == {To(i) : i \in {m \in M : OnCanvas(m)}}
               IN  /\ DOMAIN frames'[active + 1] = DOMAIN F
                   /\ \A j \in DOMAIN F :
                         frames'[active + 1][j] =
                            IF j \in Written
                            THEN F[CHOOSE i \in M : OnCanvas(i) /\ To(i) = j]
                            ELSE IF j \in M THEN Transparent ELSE F[j]
                   /\ active' = active
                   /\ Len(frames') = Len(frames)
                   /\ \A k \in 1 .. Len(frames) : k # active + 1 => frames'[k] = frames[k]
                   /\ selectionMask' = IF Written = {} THEN Null ELSE Some(Written)
                   /\ moveVars' = <<FALSE, Null, 0, 0, Null, Null>>
      ]_vars

\* a move by one pixel to the left has been committed: of the three pixels
\* of the mask two left the canvas and the red one landed on pixel 0
C6_Witness ==
    /\ op.name = "endMoveSelection"
    /\ ~moving
    /\ selectionMask = Some({0})
    /\ activeFrame[0] = OPAQUE2
    /\ activeFrame[1] = Transparent
    /\ undoStack # <<>>
    /\ Top(undoStack).frames[1][0] = INK
    /\ Top(undoStack).frames[1][1] = OPAQUE2

(* C7: startMoveSelection, copySelection and deleteSelectionPixels       *)
(* called with no selection mask, or an empty one, change nothing.       *)
C7_NoMaskNoChange ==
    [][ (/\ op'.name \in {"startMoveSelection", "copySelection", "deleteSelectionPixels"}
         /\ (selectionMask = Null \/ selectionMask[1] = {}))
        => UNCHANGED storeVars
      ]_vars

\* deleteSelectionPixels has been called with no mask on a painted frame,
\* with a snapshot on the stack and a clipboard in place
C7_Witness ==
    /\ op.name = "deleteSelectionPixels"
    /\ selectionMask = Null
    /\ InkCount(activeFrame) > 0
    /\ undoStack # <<>>
    /\ clipboard # Null

(* C8: undo with an empty history changes nothing; with a non-empty one  *)
(* it removes exactly the top snapshot and leaves the selection path and *)
(* mask null, isSelecting false and the move state idle.                 *)
C8_UndoClearsSelection ==
    [][ op'.name = "undo" =>
          IF undoStack = <<>>
          THEN UNCHANGED storeVars
          ELSE /\ undoStack' = Pop(undoStack)
               /\ selectionPath' = Null
               /\ selectionMask' = Null
               /\ isSelecting' = FALSE
               /\ moveVars' = <<FALSE, Null, 0, 0, Null, Null>>
      ]_vars

\* an undo has popped a snapshot in the middle of a move
C8_Witness ==
    /\ op.name = "undo"
    /\ prior # Null
    /\ prior[1].mask # Null
    /\ prior[1].moving
    /\ selectionMask = Null
    /\ ~moving

\* the same 32 bits: a pixel read from a buffer and a colour number
SameBits(p, c) == p[2] = c[2] /\ p[3] = c[3]

(* C11: stamp(x, y, color) with brush radius r gives the colour to       *)
(* exactly the pixels of the active frame within r of (x, y) in both     *)
(* directions that are on the canvas, and changes no other pixel and no  *)
(* other frame: one pixel for r = 0 on the canvas, at most nine for      *)
(* r = 1, none when the square is off the canvas.                        *)
C11_StampSquare ==
    [][ op'.name = "stamp" =>
          LET x == op'.args[1]
              y == op'.args[2]
              c == op'.args[3]
              r == brushRadius
              F == frames[active + 1]
              Sq == {i \in 0 .. (w * h - 1) :
                        /\ (i % w) - x \in -r .. r
                        /\ (i \div w) - y \in -r .. r}
          IN  /\ active' = active
              /\ Len(frames') = Len(frames)
              /\ \A k \in 1 .. Len(frames) : k # active + 1 => frames'[k] = frames[k]
              /\ DOMAIN frames'[active + 1] = DOMAIN F
              /\ \A i \in DOMAIN F :
                    IF i \in Sq
                    THEN /\ SameBits(frames'[active + 1][i], c)
                         /\ frames'[active + 1][i][1] = 0
                    ELSE frames'[active + 1][i] = F[i]
              /\ (r = 0 /\ x \in 0 .. (w - 1) /\ y \in 0 .. (h - 1)) => Sq = {y * w + x}
              /\ r = 1 => Cardinality(Sq) <= 9
              /\ (x + r < 0 \/ y + r < 0 \/ x - r >= w \/ y - r >= h) => frames' = frames
      ]_vars

\* the radius-1 brush centred one pixel left of the canvas has painted
\* pixels 0 and 8 red and nothing else
C11_Witness ==
    /\ op.name = "stamp"
    /\ op.args = <<-1, 0, REDNEG>>
    /\ brushRadius = 1
    /\ \A i \in DOMAIN activeFrame :
          activeFrame[i] = IF i \in {0, w} THEN OPAQUE2 ELSE Transparent
    /\ frames[1][1] = INK

(* C12: stamp updates the recent colours exactly when the tool is the   *)
(* pencil and the colour has non-zero alpha: the colour then comes       *)
(* first, followed by the other entries in their order without the       *)
(* colour, cut to 20 entries.  Under any other tool, for a transparent   *)
(* colour, and on setColor and setTool the list stays as it is.          *)
C12_RecentColours ==
    [][ /\ op'.name = "stamp" =>
              LET c == op'.args[3]
                  rest == SelectSeq(recentColors, LAMBDA e : e # c)
              IN  IF tool = "pencil" /\ c[2] # 0
                  THEN /\ Len(recentColors') = IF Len(rest) + 1 > 20 THEN 20 ELSE Len(rest) + 1
                       /\ recentColors'[1] = c
                       /\ \A k \in 2 .. Len(recentColors') : recentColors'[k] = rest[k - 1]
                  ELSE recentColors' = recentColors
        /\ op'.name \in {"setColor", "setTool"} => recentColors' = recentColors
      ]_vars

\* an old colour has come back to the front of a full list from which
\* older entries have been cut
C12_Witness ==
    /\ op.name = "stamp"
    /\ op.args[3] = Shade(1)
    /\ tool = "pencil"
    /\ Len(recentColors) = 20
    /\ recentColors[1] = Shade(1)
    /\ recentColors[2] = Shade(21)
    /\ \A k \in 2 .. 20 : recentColors[k] # Shade(1)

\* pixels i and j of a canvas cw wide share an edge
Adjacent(i, j, cw) ==
    \/ i \div cw = j \div cw /\ (i % cw) - (j % cw) \in {-1, 1}
    \/ i % cw = j % cw /\ (i \div cw) - (j \div cw) \in {-1, 1}

\* the pixels of F reached from S through edge-sharing pixels of value old
RECURSIVE Region(_, _, _, _)
Region(S, F, old, cw) ==
    LET T == S \cup {j \in DOMAIN F : F[j] = old /\ \E i \in S : Adjacent(i, j, cw)}
    IN  IF T = S THEN S ELSE Region(T, F, old, cw)

\* the last step called floodFill, whether or not the call returned
FillCalled == op.name \in {"floodFill", "floodFill.running"}

(* C13: a flood fill from a start pixel on the canvas whose colour       *)
(* differs from the new colour returns with exactly the pixels joined    *)
(* to the start through pixels of the old colour set to the new colour;  *)
(* every other pixel and every other frame is as before.                 *)
C13_FillRegion ==
    [][ (/\ FillCalled'
         /\ InBounds(op'.args[1], op'.args[2], w, h)
         /\ ~SameBits(activeFrame[op'.args[2] * w + op'.args[1]], op'.args[3]))
        => LET start == op'.args[2] * w + op'.args[1]
               c == op'.args[3]
               F == activeFrame
           IN  /\ op'.name = "floodFill"
               /\ active' = active
               /\ Len(frames') = Len(frames)
               /\ \A k \in 1 .. Len(frames) : k # active + 1 => frames'[k] = frames[k]
               /\ \E R \in {Region({start}, F, F[start], w)} :
                     frames'[active + 1] =
                        [i \in DOMAIN F |-> IF i \in R THEN <<0, c[2], c[3]>> ELSE F[i]]
      ]_vars

\* the transparent area left of the black column has been filled with the
\* colour input's red; the column and the area right of it are as before
C13_Witness ==
    /\ op = Call("floodFill", <<0, 0, REDNEG>>)
    /\ active = 0
    /\ \A i \in DOMAIN frames[1] :
          frames[1][i] = IF i % w < 2 THEN OPAQUE2
                         ELSE IF i % w = 2 THEN INK ELSE Transparent
    /\ frames[2] = makeFrame(w, h, Transparent)

(* C14: flood fill is idempotent.  A fill whose start pixel already has  *)
(* the new colour (as after the same fill), or whose start point is off  *)
(* the canvas, returns and leaves every frame as it was.                 *)
C14_FillIdempotent ==
    [][ (/\ FillCalled'
         /\ \/ ~InBounds(op'.args[1], op'.args[2], w, h)
            \/ SameBits(activeFrame[op'.args[2] * w + op'.args[1]], op'.args[3]))
        => /\ op'.name = "floodFill"
           /\ frames' = frames
      ]_vars

(* ------------------------------------------------------------------ *)
(* Clipboard                                                           *)
(* ------------------------------------------------------------------ *)
\* the bounding box of a non-empty set of indices of a canvas width wide
BoxOf(M, width) ==
    [minX |-> CHOOSE x \in {i % width : i \in M} : \A i \in M : x <= i % width,
     maxX |-> CHOOSE x \in {i % width : i \in M} : \A i \in M : x >= i % width,
     minY |-> CHOOSE y \in {i \div width : i \in M} : \A i \in M : y <= i \div width,
     maxY |-> CHOOSE y \in {i \div width : i \in M} : \A i \in M : y >= i \div width]

\* C15: copySelection with a non-empty mask M leaves a clipboard as wide and
\* high as M's bounding box, whose cell (x - minX, y - minY) holds the active
\* frame's pixel for (x, y) in M and transparent for a box cell outside M;
\* no frame, no selection and no history changes.
C15_CopySelection ==
    [][(op'.name = "copySelection" /\ selectionMask # Null /\ selectionMask[1] # {})
       => LET M == selectionMask[1]
              b == BoxOf(M, w)
              cw == b.maxX - b.minX + 1
              ch == b.maxY - b.minY + 1
          IN  /\ clipboard' # Null
              /\ clipboard'[1].w = cw
              /\ clipboard'[1].h = ch
              /\ DOMAIN clipboard'[1].pixels = 0 .. (cw * ch - 1)
              /\ \A x \in b.minX .. b.maxX : \A y \in b.minY .. b.maxY :
                    clipboard'[1].pixels[(y - b.minY) * cw + (x - b.minX)]
                      = IF y * w + x \in M THEN activeFrame[y * w + x] ELSE Transparent
              /\ UNCHANGED <<w, h, frames, active, selVars, moveVars, undoStack>>]_vars

\* a copy taken on the second frame: the box cell outside the mask is
\* transparent in the clipboard although the frame is painted there
C15_Witness ==
    /\ op.name = "copySelection"
    /\ active = 1
    /\ selectionMask = Some({0, 1, 8})
    /\ clipboard # Null
    /\ clipboard[1].pixels[1] = INK
    /\ clipboard[1].pixels[2] = INK
    /\ clipboard[1].pixels[3] = Transparent
    /\ activeFrame[9] = INK

\* the indices pasteClipboard(atX, atY) writes: those under a clipboard cell
\* of non-zero alpha
Written(clip, atX, atY, cw, ch) ==
    {i \in 0 .. (cw * ch - 1) :
        /\ (i % cw) - atX \in 0 .. (clip.w - 1)
        /\ (i \div cw) - atY \in 0 .. (clip.h - 1)
        /\ Alpha(clip.pixels[((i \div cw) - atY) * clip.w + (i % cw) - atX]) # 0}

\* C16: pasteClipboard(atX, atY) with a clipboard pushes exactly one
\* snapshot, writes each clipboard pixel of non-zero alpha to
\* (atX + x, atY + y) when that is inside the canvas, leaves every other
\* pixel unchanged and makes the mask exactly the indices written (null when
\* there are none); without a clipboard nothing changes.
C16_Paste ==
    [][op'.name = "pasteClipboard"
       => IF clipboard = Null
          THEN UNCHANGED storeVars
          ELSE LET c == clipboard[1]
                   atX == op'.args[1]
                   atY == op'.args[2]
                   W == Written(c, atX, atY, w, h)
               IN  /\ Len(undoStack') = Len(undoStack) + 1
                   /\ Pop(undoStack') = undoStack
                   /\ Top(undoStack').frames = frames
                   /\ Top(undoStack').active = active
                   /\ active' = active
                   /\ frames' = [frames EXCEPT ![active + 1] =
                          [i \in DOMAIN activeFrame |->
                              IF i \in W
                              THEN c.pixels[((i \div w) - atY) * c.w + (i % w) - atX]
                              ELSE activeFrame[i]]]
                   /\ selectionMask' = IF W = {} THEN Null ELSE Some(W)]_vars

\* a paste at the far corner: only the clipboard's first cell lands
C16_Witness ==
    /\ op = Call("pasteClipboard", <<7, 7>>)
    /\ undoStack # <<>>
    /\ Top(undoStack).frames[active + 1][63] = Transparent
    /\ activeFrame[63] = INK
    /\ selectionMask = Some({63})

\* a paste at the mask's own corner of what copySelection took from `prior`
PasteBack ==
    /\ op'.name = "pasteClipboard"
    /\ op.name \in {"copySelection", "active.set"}
    /\ prior # Null
    /\ op'.args = <<BoxOf(prior[1].mask[1], w).minX, BoxOf(prior[1].mask[1], w).minY>>

\* C17: after copySelection on a frame F with mask M and pasteClipboard at
\* M's bounding box corner on a frame D of the same size, every index of M
\* whose pixel in F has non-zero alpha holds F's pixel, and every other
\* index (of M with zero alpha in F, of the box outside M, outside the box)
\* holds D's value.
C17_CopyPasteOpaque ==
    [][PasteBack
       => LET F == prior[1].frames[prior[1].active + 1]
              M == prior[1].mask[1]
          IN  \A i \in DOMAIN activeFrame :
                activeFrame'[i] = IF i \in M /\ Alpha(F[i]) # 0 THEN F[i] ELSE activeFrame[i]]_vars

\* the first frame copied onto the second: (0,0) and (1,0) taken from the
\* first, (0,1), transparent in the first, and (1,1), outside the mask, kept
C17_Witness ==
    /\ op = Call("pasteClipboard", <<0, 0>>)
    /\ active = 1
    /\ undoStack # <<>>
    /\ Top(undoStack).frames[2][0] = Transparent
    /\ Top(undoStack).frames[2][1] = INK
    /\ frames[1][8] = Transparent
    /\ activeFrame[0] = INK
    /\ activeFrame[1] = OPAQUE2
    /\ activeFrame[8] = INK
    /\ activeFrame[9] = INK

\* C17 as stated: after the copy and the paste every index of M holds F's
\* pixel and every box index outside M holds D's value.
C17_CopyPasteRoundTrip ==
    [][PasteBack
       => LET F == prior[1].frames[prior[1].active + 1]
              M == prior[1].mask[1]
              b == BoxOf(M, w)
          IN  \A x \in b.minX .. b.maxX : \A y \in b.minY .. b.maxY :
                activeFrame'[y * w + x]
                  = IF y * w + x \in M THEN F[y * w + x] ELSE activeFrame[y * w + x]]_vars

\* C18: deleteSelectionPixels with a non-empty mask M pushes exactly one
\* snapshot, sets the pixels of M in the active frame to 0, leaves every
\* other pixel and frame unchanged, and the mask stays M.
C18_DeleteSelection ==
    [][(op'.name = "deleteSelectionPixels" /\ selectionMask # Null /\ selectionMask[1] # {})
       => /\ Len(undoStack') = Len(undoStack) + 1
          /\ Pop(undoStack') = undoStack
          /\ Top(undoStack').frames = frames
          /\ Top(undoStack').active = active
          /\ active' = active
          /\ frames' = [frames EXCEPT ![active + 1] =
                 [i \in DOMAIN activeFrame |->
                     IF i \in selectionMask[1] THEN Transparent ELSE activeFrame[i]]]
          /\ selectionMask' = selectionMask]_vars

\* the selection deleted on the second frame: (1,0) and (0,1) erased, (1,1)
\* outside the mask kept
C18_Witness ==
    /\ op.name = "deleteSelectionPixels"
    /\ active = 1
    /\ selectionMask = Some({0, 1, 8})
    /\ undoStack # <<>>
    /\ Top(undoStack).frames[2][1] = INK
    /\ Top(undoStack).frames[2][8] = INK
    /\ activeFrame[1] = Transparent
    /\ activeFrame[8] = Transparent
    /\ activeFrame[9] = INK

(* ------------------------------------------------------------------ *)
(* Canvas size                                                         *)
(* ------------------------------------------------------------------ *)
\* n limited to MIN .. MAX
Clamped(n) == IF n < MIN THEN MIN ELSE IF n > MAX THEN MAX ELSE n

\* C19: growing the canvas with setCanvasSize(w', h'), w' >= w and h' >= h,
\* and then calling setCanvasSize(w, h) restores every frame exactly.
C19_ResizeRoundTrip ==
    [][(/\ op.name = "setCanvasSize"
        /\ prior # Null
        /\ DOMAIN prior[1].frames[1] = 0 .. (prior[1].w * prior[1].h - 1)
        /\ w >= prior[1].w
        /\ h >= prior[1].h
        /\ op'.name = "setCanvasSize"
        /\ Clamped(op'.args[1]) = prior[1].w
        /\ Clamped(op'.args[2]) = prior[1].h)
       => frames' = prior[1].frames]_vars

\* C20: setCanvasSize(newW, newH) sets the size to the arguments limited to
\* MIN .. MAX; when that is the current size nothing changes; otherwise one
\* snapshot is pushed, every frame becomes a buffer of the new size and the
\* selection path, mask and move state are cleared.
C20_SetCanvasSize ==
    [][op'.name = "setCanvasSize"
       => LET nw == Clamped(op'.args[1])
              nh == Clamped(op'.args[2])
          IN  /\ w' = nw
              /\ h' = nh
              /\ IF nw = w /\ nh = h
                 THEN UNCHANGED storeVars
                 ELSE /\ Len(undoStack') = Len(undoStack) + 1
                      /\ Pop(undoStack') = undoStack
                      /\ Top(undoStack').frames = frames
                      /\ Top(undoStack').active = active
                      /\ Len(frames') = Len(frames)
                      /\ \A k \in 1 .. Len(frames') :
                            DOMAIN frames'[k] = 0 .. (nw * nh - 1)
                      /\ selectionPath' = Null
                      /\ selectionMask' = Null
                      /\ isSelecting' = FALSE
                      /\ moving' = FALSE
                      /\ moveStart' = Null
                      /\ floatingPixels' = Null
                      /\ baseWhileMoving' = Null]_vars

\* a canvas with a selection resized to a width above the maximum
C20_Witness ==
    /\ op = Call("setCanvasSize", <<600, 8>>)
    /\ prior # Null
    /\ prior[1].mask = Some({0, 1, 8})
    /\ w = MAX
    /\ h = 8
    /\ Len(undoStack) = 1
    /\ DOMAIN frames[2] = 0 .. (MAX * 8 - 1)
    /\ selectionMask = Null

(* ------------------------------------------------------------------ *)
(* Placement on resize and on import                                   *)
(* ------------------------------------------------------------------ *)
\* the index in an ow x oh grid of the cell that lands on cell i of an
\* nw-wide grid when the content is shifted by (offX, offY), or -1
SourceOf(i, nw, ow, oh, offX, offY) ==
    IF /\ (i % nw) - offX \in 0 .. (ow - 1)
       /\ (i \div nw) - offY \in 0 .. (oh - 1)
    THEN ((i \div nw) - offY) * ow + (i % nw) - offX
    ELSE -1

\* a setCanvasSize step that changes the size of well-formed frames
Resizing ==
    /\ op'.name = "setCanvasSize"
    /\ <<w', h'>> # <<w, h>>
    /\ \A k \in 1 .. Len(frames) : DOMAIN frames[k] = 0 .. (w * h - 1)

\* C21: on a resize, in every frame the new pixel at (x + offX, y + offY)
\* equals the old pixel at (x, y) of non-zero alpha whose target is on the
\* new canvas, offX = floor((w - oldW) / 2), offY = floor((h - oldH) / 2),
\* and every other new pixel is transparent.
C21_ResizeCentresOpaque ==
    [][Resizing
       => /\ Len(frames') = Len(frames)
          /\ \A k \in 1 .. Len(frames) : \A i \in 0 .. (w' * h' - 1) :
                \E src \in {SourceOf(i, w', w, h, (w' - w) \div 2, (h' - h) \div 2)} :
                    frames'[k][i] = IF src # -1 /\ Alpha(frames[k][src]) # 0
                                    THEN frames[k][src]
                                    ELSE Transparent]_vars

\* the imported pair moved one column right by a resize to 10 x 9: the
\* opaque pixel arrives, the pixel of alpha 0 arrives as 0
C21_Witness ==
    /\ op = Call("setCanvasSize", <<10, 9>>)
    /\ Len(undoStack) = 1
    /\ Top(undoStack).frames[1][27] = OPAQUE2
    /\ Top(undoStack).frames[1][28] = FAINT
    /\ frames[1][34] = OPAQUE2
    /\ frames[1][35] = Transparent

\* C21 as stated: every old pixel whose target is on the new canvas is
\* found there unchanged, and every other new pixel is transparent.
C21_ResizeCentres ==
    [][Resizing
       => /\ Len(frames') = Len(frames)
          /\ \A k \in 1 .. Len(frames) : \A i \in 0 .. (w' * h' - 1) :
                \E src \in {SourceOf(i, w', w, h, (w' - w) \div 2, (h' - h) \div 2)} :
                    frames'[k][i] = IF src # -1 THEN frames[k][src] ELSE Transparent]_vars

\* C27: importing an iw x ih image onto a W x H canvas puts every image
\* pixel (x, y) whose target (x + offX, y + offY), offX = floor((W - iw) / 2),
\* offY = floor((H - ih) / 2), is on the canvas at that target, and leaves
\* every other canvas pixel transparent.
C27_ImportCentreAndClip ==
    [][op'.name = "importarImagen"
       => LET img == op'.args[1]
          IN  \A i \in 0 .. (w * h - 1) :
                \E src \in {SourceOf(i, w, img.w, img.h,
                                      (w - img.w) \div 2, (h - img.h) \div 2)} :
                    frames'[active' + 1][i] = IF src # -1 THEN ToUint32(img.data[src])
                                              ELSE Transparent]_vars

(* ------------------------------------------------------------------ *)
(* Autocrop and centring                                               *)
(* ------------------------------------------------------------------ *)
\* the cells of non-zero alpha of a frame, of any frame of a list
OpaqueOf(fr) == {i \in DOMAIN fr : Alpha(fr[i]) # 0}
OpaqueOfAny(fs) == UNION {OpaqueOf(fs[k]) : k \in 1 .. Len(fs)}

\* exactly one snapshot, of the frames and active index before, is pushed
OnePush ==
    /\ Len(undoStack') = Len(undoStack) + 1
    /\ Pop(undoStack') = undoStack
    /\ Top(undoStack').frames = frames
    /\ Top(undoStack').active = active

\* C22: autocropTodos(padding, false) on frames with some pixel of non-zero
\* alpha takes the one bounding box of those pixels over all frames, widens
\* it by the padding within the old canvas, pushes exactly one snapshot,
\* sets the canvas to the box's width and height and makes pixel (x, y) of
\* every frame its old pixel (minX + x, minY + y).
C22_Autocrop ==
    [][(/\ op'.name = "autocropTodos"
        /\ op'.args[2] = FALSE
        /\ OpaqueOfAny(frames) # {})
       => \E b \in {BoxOf(OpaqueOfAny(frames), w)} :
            LET pad == op'.args[1]
                minX == IF b.minX - pad < 0 THEN 0 ELSE b.minX - pad
                minY == IF b.minY - pad < 0 THEN 0 ELSE b.minY - pad
                maxX == IF b.maxX + pad > w - 1 THEN w - 1 ELSE b.maxX + pad
                maxY == IF b.maxY + pad > h - 1 THEN h - 1 ELSE b.maxY + pad
            IN  /\ OnePush
                /\ w' = maxX - minX + 1
                /\ h' = maxY - minY + 1
                /\ Len(frames') = Len(frames)
                /\ \A k \in 1 .. Len(frames) :
                     /\ DOMAIN frames'[k] = 0 .. (w' * h' - 1)
                     /\ \A x \in 0 .. (w' - 1) : \A y \in 0 .. (h' - 1) :
                          frames'[k][y * w' + x] = frames[k][(minY + y) * w + minX + x]]_vars

\* one pixel at (5,5) of the 32 x 32 canvas cropped without padding
C22_Witness ==
    /\ op = Call("autocropTodos", <<0, FALSE>>)
    /\ prior # Null
    /\ prior[1].w = 32
    /\ prior[1].h = 32
    /\ OpaqueOfAny(prior[1].frames) = {5 * 32 + 5}
    /\ w = 1
    /\ h = 1
    /\ frames[1] = [i \in {0} |-> INK]
    /\ Len(undoStack) = 1

\* C23: autocropTodos on frames without any pixel of non-zero alpha changes
\* the notice only.
C23_AutocropBlank ==
    [][(op'.name = "autocropTodos" /\ OpaqueOfAny(frames) = {})
       => UNCHANGED <<cfgVars, frameVars, selVars, moveVars, clipboard, undoStack,
                      recentColors, srcVars>>]_vars

\* autocrop asked for on two blank frames
C23_Witness ==
    /\ op.name = "autocropTodos"
    /\ Len(frames) = 2
    /\ OpaqueOfAny(frames) = {}
    /\ w = 32
    /\ Len(undoStack) = 1
    /\ uiAviso = Aviso("No hay pixeles dibujados para recortar.", <<>>)

\* C24: centrarFrameActivo keeps the canvas size and the other frames,
\* pushes exactly one snapshot, and moves the pixels of non-zero alpha of
\* the active frame by one common (dx, dy), losing none, so that their
\* bounding box starts at (floor((W - contentW) / 2), floor((H - contentH) / 2));
\* a second call right after changes no pixel.
C24_CentreIsTranslation ==
    [][op'.name = "centrarFrameActivo"
       => /\ UNCHANGED <<w, h, active>>
          /\ OnePush
          /\ Len(frames') = Len(frames)
          /\ \A k \in 1 .. Len(frames) : k # active + 1 => frames'[k] = frames[k]
          /\ op.name = "centrarFrameActivo" => frames' = frames
          /\ \E O \in {OpaqueOf(activeFrame)} :
                IF O = {} THEN activeFrame' = activeFrame
                ELSE \E b \in {BoxOf(O, w)} :
                       LET dx == ((w - (b.maxX - b.minX + 1)) \div 2) - b.minX
                           dy == ((h - (b.maxY - b.minY + 1)) \div 2) - b.minY
                       IN  /\ \A i \in O :
                                /\ (i % w) + dx \in 0 .. (w - 1)
                                /\ (i \div w) + dy \in 0 .. (h - 1)
                                /\ activeFrame'[i + dy * w + dx] = activeFrame[i]
                           /\ OpaqueOf(activeFrame') = {i + dy * w + dx : i \in O}
                           /\ Cardinality(OpaqueOf(activeFrame')) = Cardinality(O)]_vars

\* two pixels, (5,5) and (8,6), moved to the middle of the 32 x 32 canvas:
\* the 4 x 2 box starts at (14, 15)
C24_Witness ==
    /\ op.name = "centrarFrameActivo"
    /\ w = 32
    /\ Len(undoStack) = 1
    /\ OpaqueOf(Top(undoStack).frames[1]) = {5 * 32 + 5, 6 * 32 + 8}
    /\ OpaqueOf(frames[1]) = {15 * 32 + 14, 16 * 32 + 17}

(* ------------------------------------------------------------------ *)
(* Lasso                                                               *)
(* ------------------------------------------------------------------ *)
\* the edges of the closed polygon that the ray from (x, y) towards +x
\* crosses: those with one end above y and one not, met right of x
Crossed(x, y, poly) ==
    {i \in 1 .. Len(poly) :
        LET a == poly[i]
            b == poly[IF i = 1 THEN Len(poly) ELSE i - 1]
        IN  /\ (a.y > y) # (b.y > y)
            /\ IF b.y > a.y
               THEN x * (b.y - a.y) < (b.x - a.x) * (y - a.y) + a.x * (b.y - a.y)
               ELSE x * (a.y - b.y) < (a.x - b.x) * (y - b.y) + b.x * (a.y - b.y)}

\* C25: finishLasso with fewer than 3 vertices clears the selection; with 3
\* or more it sets the mask to the indices y*w + x of the canvas pixels
\* whose ray crosses the polygon an odd number of times, or to null when
\* there are none, and leaves isSelecting false; no frame and no snapshot
\* changes either way.
C25_FinishLasso ==
    [][op'.name = "finishLasso"
       => /\ UNCHANGED <<frames, active, undoStack, w, h>>
          /\ isSelecting' = FALSE
          /\ IF selectionPath = Null \/ Len(selectionPath[1]) < 3
             THEN selectionPath' = Null /\ selectionMask' = Null
             ELSE \E M \in {{i \in 0 .. (w * h - 1) :
                               Cardinality(Crossed(i % w, i \div w, selectionPath[1])) % 2 = 1}} :
                    selectionMask' = IF M = {} THEN Null ELSE Some(M)]_vars

\* the triangle (0,0) (2,0) (0,2) closed: pixels (0,0), (1,0) and (0,1)
C25_Witness ==
    /\ op.name = "finishLasso"
    /\ selectionPath = Some(<<Pt(0, 0), Pt(2, 0), Pt(0, 2)>>)
    /\ selectionMask = Some({0, 1, 8})
    /\ ~isSelecting

(* ------------------------------------------------------------------ *)
(* The selection mask                                                  *)
(* ------------------------------------------------------------------ *)
\* C26: the selection mask is always null or a non-empty set of indices
\* i with 0 <= i < w*h for the current canvas.
C26_MaskWellFormed ==
    \/ selectionMask = Null
    \/ /\ selectionMask[1] # {}
       /\ \A i \in selectionMask[1] : 0 <= i /\ i < w * h

\* a mask made by a paste on a canvas that an autocrop made smaller
C26_Witness ==
    /\ op.name = "pasteClipboard"
    /\ selectionMask # Null
    /\ w * h < MIN * MIN
    /\ Len(undoStack) = 1

(* ------------------------------------------------------------------ *)
(* Strokes and the fill tool                                           *)
(* ------------------------------------------------------------------ *)
\* two neighbouring pixels and a point left of the canvas
StrokePoints == {Pt(1, 0), Pt(2, 0), Pt(-1, 0)}
StrokeTools == {"pencil", "eraser", "fill"}

\* the handler about to run takes no snapshot beyond the bound
CanStroke == Len(undoStack) < MaxStrokes

NextStroke ==
    \/ ~Hung /\ \E t \in StrokeTools : setTool(t)
    \/ ~Hung /\ ~drawing /\ CanStroke /\ \E p \in StrokePoints : onDown(p.x, p.y, FALSE, 0)
    \/ ~Hung /\ drawing /\ (tool = "fill" => CanStroke)
             /\ \E p \in StrokePoints : onMove(p.x, p.y)
    \/ ~Hung /\ drawing /\ onUp
    \/ ~Hung /\ undoStack # <<>> /\ undo

SpecStroke == InitMin /\ [][NextStroke]_vars

\* the handler that has just run applied the current tool at mousePixel'
ToolApplied == op'.name = "onDown" \/ (op'.name = "onMove" /\ drawing)

\* C28: the fill tool applied at a point off the canvas, or at a pixel that
\* already has the draw colour, is a no-op: frames, active frame and the
\* undo history (depth and contents) are as before.
C28_FillToolNoOp ==
    [][(/\ tool = "fill"
        /\ ToolApplied
        /\ \/ ~InBounds(mousePixel'.x, mousePixel'.y, w, h)
           \/ Read(activeFrame, mousePixel'.y * w + mousePixel'.x) = color)
       => /\ frames' = frames
          /\ active' = active
          /\ undoStack' = undoStack]_vars

\* C29: a pencil or eraser stroke (pointer-down, moves, pointer-up, nothing
\* else in between) pushes exactly one snapshot, the frames and active
\* index at pointer-down; an undo right after the stroke restores the
\* frames and the history of the pointer-down.
C29_StrokeOneSnapshot ==
    [][/\ (op'.name = "onUp" /\ prior' # Null /\ ~prior'[1].cut /\ tool \in {"pencil", "eraser"})
          => undoStack' = Append(prior'[1].stack,
                                 [frames |-> prior'[1].frames, active |-> prior'[1].active])
       /\ (/\ op.name = "onUp" /\ prior # Null /\ ~prior[1].cut /\ tool \in {"pencil", "eraser"}
           /\ op'.name = "undo")
          => /\ frames' = prior[1].frames
             /\ undoStack' = prior[1].stack]_vars

\* a pencil stroke over both pixels, ended: one snapshot more than at
\* pointer-down, and the frame differs from the one at pointer-down
C29_Witness ==
    /\ op.name = "onUp"
    /\ prior # Null
    /\ ~prior[1].cut
    /\ tool = "pencil"
    /\ Read(prior[1].frames[active + 1], 1) = Transparent
    /\ Read(prior[1].frames[active + 1], 2) = Transparent
    /\ Read(activeFrame, 1) = INK
    /\ Read(activeFrame, 2) = INK
    /\ Len(undoStack) = Len(prior[1].stack) + 1

\* C37: after a pencil or eraser stroke during which Ctrl+Z was pressed and
\* which went on stamping after it, the undo that follows pointer-up does
\* not restore a snapshot that was in the history at pointer-down already,
\* with frames other than those of pointer-down.
C37_UndoNotOlderThanStroke ==
    [][(/\ op.name = "onUp" /\ prior # Null /\ prior[1].cut /\ prior[1].resumed
        /\ tool \in {"pencil", "eraser"} /\ prior[1].tool = tool
        /\ op'.name = "undo" /\ undoStack # <<>>)
       => ~(/\ Len(undoStack) <= Len(prior[1].stack)
            /\ Top(undoStack) = prior[1].stack[Len(undoStack)]
            /\ Top(undoStack).frames # prior[1].frames
            /\ frames' = Top(undoStack).frames)]_vars

\* C30: startMoveSelection and updateMoveSelection leave every frame buffer
\* as it is; updateMoveSelection(cx, cy) during a move changes only the
\* displacement, to (cx - startX, cy - startY), and outside a move changes
\* nothing.
C30_MovePreviewOnly ==
    [][/\ op'.name \in {"startMoveSelection", "updateMoveSelection"} => frames' = frames
       /\ op'.name = "updateMoveSelection"
          => IF moving
             THEN /\ moveDx' = op'.args[1] - moveStart[1].x
                  /\ moveDy' = op'.args[2] - moveStart[1].y
                  /\ UNCHANGED <<cfgVars, frameVars, uiAviso, selVars, moving, moveStart,
                                 floatingPixels, baseWhileMoving, clipboard, undoStack,
                                 recentColors, srcVars>>
             ELSE UNCHANGED storeVars]_vars

\* grabbed at (2,0) and dragged to (0,0): displacement (-2,0), frames as
\* they were when the move started
C30_Witness ==
    /\ op.name = "updateMoveSelection"
    /\ moving
    /\ moveStart = Some(Pt(2, 0))
    /\ moveDx = -2
    /\ moveDy = 0
    /\ prior # Null
    /\ frames = prior[1].frames

(* ------------------------------------------------------------------ *)
(* Rectangular lassos                                                  *)
(* ------------------------------------------------------------------ *)
\* pointer positions on a grid of three columns and two rows
RectPoints == {Pt(x, y) : x \in {0, 1, 3}, y \in {0, 2}}

NextRect ==
    \/ \E p \in RectPoints : startLasso(p.x, p.y)
    \/ /\ IF selectionPath = Null THEN TRUE ELSE Len(selectionPath[1]) < MaxVertices
       /\ \E p \in RectPoints : pushLassoPoint(p.x, p.y)
    \/ finishLasso

SpecRect == InitMin /\ [][NextRect]_vars

\* poly lists the four corners of an axis-aligned rectangle in order around
\* it: each vertex shares exactly one coordinate with the next
IsRectangle(poly) ==
    /\ Len(poly) = 4
    /\ Cardinality({poly[i] : i \in 1 .. 4}) = 4
    /\ Cardinality({poly[i].x : i \in 1 .. 4}) = 2
    /\ Cardinality({poly[i].y : i \in 1 .. 4}) = 2
    /\ \A i \in 1 .. 4 :
          LET a == poly[i]
              b == poly[(i % 4) + 1]
          IN  (a.x = b.x) # (a.y = b.y)

\* C32: a lasso over the four corners of an axis-aligned rectangle, from
\* any corner and in either direction, selects exactly the canvas pixels
\* with x0 <= x < x1 and y0 <= y < y1.
C32_RectangleLasso ==
    [][(op'.name = "finishLasso" /\ selectionPath # Null /\ IsRectangle(selectionPath[1]))
       => LET poly == selectionPath[1]
              x0 == SetMin({poly[i].x : i \in 1 .. 4})
              x1 == SetMax({poly[i].x : i \in 1 .. 4})
              y0 == SetMin({poly[i].y : i \in 1 .. 4})
              y1 == SetMax({poly[i].y : i \in 1 .. 4})
          IN  selectionMask' = Some({y * w + x : x \in {c \in x0 .. (x1 - 1) : c < w},
                                                 y \in {r \in y0 .. (y1 - 1) : r < h}})]_vars

\* the rectangle from (1,0) to (3,2), begun at its lower right corner and
\* drawn upwards first: pixels (1,0), (2,0), (1,1), (2,1)
C32_Witness ==
    /\ op.name = "finishLasso"
    /\ selectionPath = Some(<<Pt(3, 2), Pt(3, 0), Pt(1, 0), Pt(1, 2)>>)
    /\ selectionMask = Some({1, 2, 9, 10})

(* ------------------------------------------------------------------ *)
(* The recent colours under stamps and fills                           *)
(* ------------------------------------------------------------------ *)
\* the draw colour is set to the next new shade, to an old one, to the
\* colour input's red or to transparent; stamps and fills land off the
\* canvas and register the colour all the same
NextUsed ==
    \/ \E t \in {"pencil", "eraser", "fill"} : setTool(t)
    \/ /\ Newest(recentColors) < maxRecentColors + ExtraColors
       /\ setColor(Shade(Newest(recentColors) + 1))
    \/ \E c \in {Shade(1), REDNEG, Transparent} : setColor(c)
    \/ stamp(-4, -4, IF tool = "eraser" THEN Transparent ELSE color)
    \/ ~drawing /\ tool = "fill" /\ CanStroke /\ onDown(-1, 0, FALSE, 0)
    \/ drawing /\ onUp
    \/ ~drawing /\ undoStack # <<>> /\ undo

SpecUsed == InitMin /\ [][NextUsed]_vars

\* C33: the recent-colours list always has at most 20 entries, pairwise
\* distinct, each with non-zero alpha.
C33_RecentColoursWellFormed ==
    /\ Len(recentColors) <= 20
    /\ \A i, j \in 1 .. Len(recentColors) : i # j => recentColors[i] # recentColors[j]
    /\ \A i \in 1 .. Len(recentColors) : recentColors[i][2] # 0

\* a fill has registered the draw colour at the front of a full list
C33_Witness ==
    /\ op.name = "onDown"
    /\ tool = "fill"
    /\ Len(recentColors) = 20
    /\ recentColors[1] = color
    /\ \E k \in 2 .. 20 : recentColors[k] = REDNEG

(* ------------------------------------------------------------------ *)
(* The canvas size under resize, autocrop and undo                     *)
(* ------------------------------------------------------------------ *)
\* requested sizes: below the minimum, above the maximum
RangeSizes == {<<5, 5>>, <<600, 5>>}

NextRange ==
    \* the drawing is made first
    \/ op.name \in {"init", "stamp"} /\ \E p \in CropPoints : stamp(p.x, p.y, INK)
    \/ Len(undoStack) < MaxResizes /\ \E sz \in RangeSizes : setCanvasSize(sz[1], sz[2])
    \/ Len(undoStack) < MaxResizes /\ autocropTodos(0, FALSE)
    \/ undoStack # <<>> /\ undo

SpecRange == Init /\ [][NextRange]_vars

\* C38 as stated: width and height are always within [8,512].
C38_SizeInRange ==
    /\ MIN <= w /\ w <= MAX
    /\ MIN <= h /\ h <= MAX

\* C38, amended: width and height are always within [1,512], and within
\* [8,512] in the state a setCanvasSize call returns in; autocropTodos may
\* take them below 8.
C38_SizeAtLeastOne ==
    /\ 1 <= w /\ w <= MAX
    /\ 1 <= h /\ h <= MAX
    /\ op.name = "setCanvasSize" => (MIN <= w /\ MIN <= h)

\* the autocrop of a single pixel has left a 1 x 1 canvas
C38_Witness ==
    /\ op.name = "autocropTodos"
    /\ w = 1
    /\ h = 1

(* ------------------------------------------------------------------ *)
(* Abandoning a move                                                   *)
(* ------------------------------------------------------------------ *)
CanPushA == Len(undoStack) < MaxDepthA

\* a second frame first, then a lasso and a move; everything that clears
\* the selection is tried while the move is in progress
NextAbort ==
    \/ undoStack = <<>> /\ CanAdd /\ addFrame
    \/ ~moving /\ startLasso(0, 0)
    \/ /\ ~moving
       /\ selectionPath # Null
       /\ Len(selectionPath[1]) < MaxPath
       /\ pushLassoPoint(LassoVertex(Len(selectionPath[1])).x,
                         LassoVertex(Len(selectionPath[1])).y)
    \/ ~moving /\ isSelecting /\ finishLasso
    \/ ~moving /\ CanPushA /\ selectionMask # Null /\ startMoveSelection(2, 0)
    \/ moving /\ \E p \in DragPoints : updateMoveSelection(p.x, p.y)
    \/ moving /\ endMoveSelection
    \/ moving /\ clearSelectionCall
    \/ moving /\ undo
    \/ moving /\ CanPushA /\ deleteFrame
    \/ moving /\ CanPushA /\ \E sz \in MaskSizes : setCanvasSize(sz[1], sz[2])
    \/ moving /\ CanPushA /\ autocropTodos(0, FALSE)
    \/ moving /\ CanPushA /\ centrarFrameActivo
    \/ moving /\ CanPushA /\ \E img \in Images, comoNuevo \in BOOLEAN : importarImagen(img, comoNuevo)

SpecAbort == InitSel /\ [][NextAbort]_vars

\* the calls that run clearSelection
Clearing ==
    {"clearSelection", "undo", "deleteFrame", "setCanvasSize", "autocropTodos",
     "centrarFrameActivo", "importarImagen"}

\* C31: from the moving state, every call that clears the selection
\* returns the move to idle (no start point, floating map or base buffer,
\* displacement zero) and writes nothing of the move: clearSelection leaves
\* the frames as they are, an import as a new frame keeps the old frames,
\* and after a move that was only dragged, clearSelection and undo leave the
\* frames of the moment the move started.  The only other call that leaves
\* the moving state is endMoveSelection.
C31_ClearAbandonsMove ==
    [][moving =>
         /\ ~moving' => op'.name \in Clearing \union {"endMoveSelection"}
         /\ (op'.name \in Clearing /\ (op'.name = "clearSelection" \/ undoStack' # undoStack))
            => /\ ~moving'
               /\ moveStart' = Null
               /\ moveDx' = 0
               /\ moveDy' = 0
               /\ floatingPixels' = Null
               /\ baseWhileMoving' = Null
         /\ op'.name = "clearSelection" => frames' = frames
         /\ (op'.name = "importarImagen" /\ op'.args[2])
            => SubSeq(frames', 1, Len(frames)) = frames
         /\ (/\ op'.name \in {"clearSelection", "undo"}
             /\ op.name \in {"startMoveSelection", "updateMoveSelection"}
             /\ prior # Null)
            => frames' = prior[1].frames]_vars

\* deleteFrame was called during a move dragged two pixels to the left and
\* has left the store idle
C31_Witness ==
    /\ op.name = "deleteFrame"
    /\ prior # Null
    /\ prior[1].moving
    /\ Len(frames) < Len(prior[1].frames)
    /\ ~moving
    /\ floatingPixels = Null
    /\ baseWhileMoving = Null
    /\ moveDx = 0

(* ------------------------------------------------------------------ *)
(* Other calls during a move                                           *)
(* ------------------------------------------------------------------ *)
\* where a pixel is stamped and where the clipboard is pasted during a
\* move: away from the selection and from where it is dragged to
RacePoints == {Pt(5, 5)}

\* a lasso and a copy while idle, then a move; frames are added, selected
\* and edited while the move is in progress
\* another call may come in right after a call of the move itself
CanRace ==
    /\ moving
    /\ op.name \in {"startMoveSelection", "updateMoveSelection"}
    /\ Len(undoStack) <= MaxDepthM

NextRace ==
    \/ ~moving /\ undoStack = <<>> /\ startLasso(0, 0)
    \/ /\ ~moving
       /\ selectionPath # Null
       /\ Len(selectionPath[1]) < MaxPath
       /\ pushLassoPoint(LassoVertex(Len(selectionPath[1])).x,
                         LassoVertex(Len(selectionPath[1])).y)
    \/ ~moving /\ isSelecting /\ finishLasso
    \/ ~moving /\ selectionMask # Null /\ copySelection
    \/ undoStack = <<>> /\ selectionMask # Null /\ startMoveSelection(2, 0)
    \/ moving /\ \E p \in DragPoints : updateMoveSelection(p.x, p.y)
    \/ moving /\ endMoveSelection
    \/ CanRace /\ CanAdd /\ addFrame
    \/ CanRace /\ CanAdd /\ duplicateFrame
    \/ CanRace /\ \E i \in 0 .. (Len(frames) - 1) : setActive(i)
    \/ CanRace /\ \E p \in RacePoints : stamp(p.x, p.y, INK)
    \/ CanRace /\ clipboard # Null
               /\ \E p \in RacePoints : pasteClipboard(p.x, p.y)
    \/ CanRace /\ deleteSelectionPixels
    \/ moving /\ clearSelectionCall
    \/ ~moving /\ undoStack # <<>> /\ undo

SpecRace == InitSel /\ [][NextRace]_vars

\* a commit that writes: the move is in progress with its buffers and mask
Committing ==
    /\ op'.name = "endMoveSelection"
    /\ moving
    /\ baseWhileMoving # Null
    /\ floatingPixels # Null
    /\ selectionMask # Null

\* frame k can be the one the floating pixels were lifted from: it holds
\* them, and the base buffer is that frame with them removed
IsOrigin(k) ==
    /\ \A i \in DOMAIN floatingPixels[1] : Read(frames[k], i) = floatingPixels[1][i]
    /\ baseWhileMoving[1] =
          [i \in DOMAIN frames[k] |->
              IF i \in DOMAIN floatingPixels[1] THEN Transparent ELSE frames[k][i]]

\* C35: endMoveSelection changes no frame other than the one the pixels
\* were lifted from, whatever has changed the active index in between.
C35_CommitOnOriginFrame ==
    [][Committing
       => \A k \in 1 .. Len(frames) : frames'[k] # frames[k] => IsOrigin(k)]_vars

\* C36: on the frame the pixels were lifted from, endMoveSelection keeps
\* every pixel that is neither a source nor a destination of the moved
\* selection as it is just before the commit, edits made during the move
\* included.
C36_CommitKeepsEdits ==
    [][(Committing /\ Len(frames) = 1)
       => \A i \in DOMAIN activeFrame :
             (/\ i \notin DOMAIN floatingPixels[1]
              /\ \A j \in DOMAIN floatingPixels[1] : Target(j, moveDx, moveDy, w, h) # i)
             => frames'[active + 1][i] = activeFrame[i]]_vars

\* the frame a snapshot of the history shows as active
SnapshotFrame(snap) == snap.frames[snap.active + 1]

\* C39: moving holds exactly when the base buffer, the floating map and the
\* start point are all set; the displacement is (0, 0) whenever moving does
\* not hold; while moving the floating map has at least one key, its values
\* are the pixels of the frame the move started on (the active frame of the
\* snapshot startMoveSelection pushed) and the base is that frame with
\* exactly the pixels at the keys made transparent.
C39_MoveTransaction ==
    /\ moving <=> (baseWhileMoving # Null /\ floatingPixels # Null /\ moveStart # Null)
    /\ ~moving => (moveDx = 0 /\ moveDy = 0)
    /\ moving =>
          /\ DOMAIN floatingPixels[1] # {}
          /\ \E k \in 1 .. Len(undoStack) :
                /\ baseWhileMoving[1] =
                      [i \in DOMAIN SnapshotFrame(undoStack[k]) |->
                          IF i \in DOMAIN floatingPixels[1]
                          THEN Transparent
                          ELSE SnapshotFrame(undoStack[k])[i]]
                /\ \A i \in DOMAIN floatingPixels[1] :
                      floatingPixels[1][i] = Read(SnapshotFrame(undoStack[k]), i)

\* a move dragged by one pixel after a stamp has changed the live frame
C39_Witness ==
    /\ op.name = "updateMoveSelection"
    /\ moving
    /\ moveDx = -1
    /\ activeFrame # SnapshotFrame(undoStack[1])
    /\ Len(frames) = 1

(* ------------------------------------------------------------------ *)
(* Pointer and key events                                              *)
(* ------------------------------------------------------------------ *)
\* pasteClipboardAtMouse: the clipboard centred on the mouse pixel
pasteClipboardAtMouse ==
    IF clipboard = Null
    THEN pasteClipboard(0, 0)
    ELSE pasteClipboard(mousePixel.x - (clipboard[1].w \div 2),
                        mousePixel.y - (clipboard[1].h \div 2))

\* the window's keydown handler; ctrl stands for ctrlOrMeta
onKeyDown(ctrl, key) ==
    IF ~ctrl /\ key = "1" THEN setTool("pencil")
    ELSE IF ~ctrl /\ key = "2" THEN setTool("eraser")
    ELSE IF ~ctrl /\ key = "3" THEN setTool("picker")
    ELSE IF ~ctrl /\ key = "4" THEN setTool("fill")
    ELSE IF ~ctrl /\ key = "5" THEN setTool("lasso")
    ELSE IF ~ctrl /\ key \in {"-", "Subtract"} THEN setBrushRadius(brushRadius - 1)
    ELSE IF ~ctrl /\ key \in {"+", "=", "Add"} THEN setBrushRadius(brushRadius + 1)
    ELSE IF ctrl /\ key \in {"z", "Z"} THEN undo
    ELSE IF ctrl /\ key \in {"c", "C"} THEN copySelection
    ELSE IF ctrl /\ key \in {"v", "V"} THEN pasteClipboardAtMouse
    ELSE IF key = "Delete" THEN deleteSelectionPixels
    ELSE IF key = "Escape" THEN clearSelectionCall
    ELSE UNCHANGED vars

\* the keys pressed: pencil, lasso, undo, copy, paste, delete, escape
KeyEvents ==
    {<<FALSE, "1">>, <<FALSE, "5">>, <<TRUE, "z">>, <<TRUE, "c">>, <<TRUE, "v">>,
     <<FALSE, "Delete">>, <<FALSE, "Escape">>}

\* where the pointer goes down, and where it moves next: along the triangle
\* around pixels 0, 1, w while a lasso is drawn, one pixel to the right otherwise
GesturePoints == {Pt(0, 0)}
GestureTarget ==
    IF isSelecting /\ selectionPath # Null
    THEN LassoVertex(Len(selectionPath[1]))
    ELSE Pt(1, 0)

\* the handler about to run takes a snapshot
DownPushes(shiftKey) ==
    IF shiftKey THEN selectionMask # Null ELSE tool \in {"pencil", "eraser", "fill"}

MovePushes ==
    /\ ~moving /\ ~isSelecting /\ drawing
    /\ tool = "fill" \/ (tool \in {"pencil", "eraser"} /\ ~strokeUndoPushed)

KeyPushes(ctrl, key) ==
    \/ ctrl /\ key = "v" /\ clipboard # Null
    \/ key = "Delete" /\ selectionMask # Null

\* the event about to be handled stays within the bounds of the exploration
CanGesture(pushes) == pushes => Len(undoStack) < MaxDepthM

\* a lasso in progress takes another vertex
CanExtend == (isSelecting /\ selectionPath # Null) => Len(selectionPath[1]) < MaxPath

NextGesture ==
    \/ \E p \in GesturePoints, shiftKey \in BOOLEAN :
          CanGesture(DownPushes(shiftKey)) /\ onDown(p.x, p.y, shiftKey, 0)
    \/ CanGesture(MovePushes) /\ CanExtend /\ onMove(GestureTarget.x, GestureTarget.y)
    \/ onUp
    \/ \E k \in KeyEvents :
          CanGesture(KeyPushes(k[1], k[2])) /\ onKeyDown(k[1], k[2])

SpecGesture == InitSel /\ [][NextGesture]_vars

\* C40: isSelecting and moving are never both true, and neither is true
\* once the canvas has handled a pointer-up.
C40_GesturesExclusive ==
    /\ ~(isSelecting /\ moving)
    /\ op.name = "onUp" => (~isSelecting /\ ~moving)

(* ------------------------------------------------------------------ *)
(* The preview player                                                  *)
(* ------------------------------------------------------------------ *)
setFps(n) ==
    /\ op' = Call("setFps", <<n>>)
    /\ prior' = Null
    /\ fps' = n
    /\ UNCHANGED <<storeVars, ptrVars, reproduciendo, timer, playIdx, intervals, nextTimer>>

\* a stop() that forgets the timer without clearing it
ClearedNone == intervals

\* the scheduled intervals after stop(): clearInterval(this.timer) when set
Cleared == IF timer = Null THEN intervals ELSE {t \in intervals : t.id # timer[1]}

\* idx after draw() entered with idx = i: nothing is drawn without frames
Drawn(i) == IF Len(frames) = 0 THEN i ELSE i + 1

\* the interval setInterval registers: its id and the rate that sets its delay
Interval(n) == [id |-> n, fps |-> Max2(1, fps)]

stop ==
    /\ intervals' = Cleared
    /\ timer' = Null

\* restart() entered with reproduciendo = playing
restart(playing) ==
    /\ playIdx' = Drawn(0)
    /\ IF ~playing
       THEN stop /\ nextTimer' = nextTimer
       ELSE /\ timer' = Some(nextTimer)
            /\ intervals' = Cleared \cup {Interval(nextTimer)}
            /\ nextTimer' = nextTimer + 1

\* the constructor's effect, run again after a write to frames or state
effect ==
    /\ op' = Call("effect", <<>>)
    /\ prior' = Null
    /\ restart(reproduciendo)
    /\ UNCHANGED <<storeVars, ptrVars, fps, reproduciendo>>

toggle ==
    /\ op' = Call("toggle", <<>>)
    /\ prior' = Null
    /\ reproduciendo' = ~reproduciendo
    /\ IF ~reproduciendo
       THEN restart(TRUE)
       ELSE stop /\ UNCHANGED <<playIdx, nextTimer>>
    /\ UNCHANGED <<storeVars, ptrVars, fps>>

\* the callback of the scheduled interval t: () => this.draw()
tick(t) ==
    /\ t \in intervals
    /\ op' = Call("tick", <<t.id>>)
    /\ prior' = Null
    /\ playIdx' = Drawn(playIdx)
    /\ UNCHANGED <<storeVars, ptrVars, fps, reproduciendo, timer, intervals, nextTimer>>

\* the rates set: none, the initial one, a faster one
FpsValues == {0, 12, 24}

NextPlayer ==
    \/ nextTimer <= MaxTimers /\ effect
    \/ (~reproduciendo => nextTimer <= MaxTimers) /\ toggle
    \/ playIdx < MaxTicks /\ \E t \in intervals : tick(t)
    \/ \E n \in FpsValues : setFps(n)
    \/ undoStack = <<>> /\ CanAdd /\ addFrame
    \/ stamp(0, 0, INK)
    \/ undoStack # <<>> /\ undo

SpecPlayer == InitMin /\ [][NextPlayer]_vars

\* C34: at most one interval is scheduled and it is the one the player
\* holds; none is scheduled while playback is paused; a restart while
\* playing (after a change of frames or fps, or on resuming) leaves only a
\* newly registered interval, timed by the current fps, so the old one has
\* been cleared; a tick leaves frames, active and the undo stack as they are.
C34_PreviewTimer ==
    /\ [](/\ Cardinality(intervals) <= 1
          /\ ~reproduciendo => intervals = {}
          /\ \A t \in intervals : timer = Some(t.id))
    /\ [][(op'.name \in {"effect", "toggle"} /\ reproduciendo')
            => /\ intervals' = {Interval(nextTimer)}
               /\ \A t \in intervals : t.id # nextTimer]_vars
    /\ [][op'.name = "tick" => UNCHANGED <<frames, active, undoStack>>]_vars

\* the effect has replaced an earlier interval after fps was set to 24 and a
\* frame was added
C34_Witness ==
    /\ op.name = "effect"
    /\ reproduciendo
    /\ Len(frames) = 2
    /\ timer = Some(3)
    /\ intervals = {[id |-> 3, fps |-> 24]}

====
